---- MODULE Spec2Model ----
(***************************************************************************)
(* A model of the natural-language query pipeline of data-insights:        *)
(* the remote planner adapter (llm_router.py), the heuristic planner        *)
(* (nlq_hf.py), the enrichment step and the control flow of main (app.py),  *)
(* the plan executor (planner.py) and the fallback parser (nlq.py).         *)
(*                                                                         *)
(* Text is modelled character by character with TLA+ strings: TLC           *)
(* evaluates Len, SubSeq, Head, Tail and \o on them.                        *)
(***************************************************************************)
EXTENDS Integers, Sequences, FiniteSets, TLC

VARIABLES
    q,          \* main: the question text typed into the text area
    token,      \* main: whether get_secret("HF_TOKEN") gave a token
    sidebar,    \* main: the sidebar selection (FilterState) of this run
    pc,         \* main: the position of the run
    reqs,       \* llm_plan_via_hf_router: the requests sent so far, in order
    chat,       \* llm_plan_via_hf_router: the outcome of the chat request
    compl,      \* llm_plan_via_hf_router: the outcome of the completion request
    parsed,     \* llm_plan_via_hf_router: whether the returned plan was parsed from a reply
    remote,     \* main: the plan as llm_plan_via_hf_router returned it
    raw_plan,   \* main: raw_plan, mutated in place by the enrichment step
    df_for_viz, \* main: the table handed to KPIs, tables and charts
    shown,      \* main: the notices shown (st.warning, st.info)
    raised,     \* the functions that raised an exception in this run, in order
    xtext,      \* _extract_json_object: the text s
    xi,         \* _extract_json_object: the loop index i (1-based)
    xdepth,     \* _extract_json_object: depth
    xin_str,    \* _extract_json_object: in_str
    xesc,       \* _extract_json_object: esc
    xres,       \* _extract_json_object: the returned text, None until it returns
    now,        \* the day pd.Timestamp.utcnow() falls on
    has_date,   \* whether the table has, besides the expected columns, a column "date"
    first_run,  \* apply_llm_plan: the result and the day of an earlier execution
    src_table,  \* data_source_picker: the table in the CSV file that is read
    main_data,  \* main: data, the table data_source_picker returned, None before
    err,        \* data_source_picker: err, the result of validate_columns
    filters_model,  \* st.session_state["filters_model"]
    pending_clear,  \* st.session_state["_pending_clear"]
    event,      \* what the user did to start this run of the script
    rendered    \* the model values the sidebar widgets were made with in the last run

vars == << q, token, sidebar, pc, reqs, chat, compl, parsed, remote, raw_plan,
           df_for_viz, shown, raised, xtext, xi, xdepth, xin_str, xesc, xres,
           now, has_date, first_run, src_table, main_data, err,
           filters_model, pending_clear, event, rendered >>

mainVars == << q, token, sidebar, pc, reqs, chat, compl, parsed, remote, raw_plan,
               df_for_viz, shown, raised >>

scanVars == << xtext, xi, xdepth, xin_str, xesc, xres >>

clockVars == << now, has_date, first_run >>

loadVars == << src_table, main_data, err >>

sideVars == << filters_model, pending_clear, event, rendered >>

otherVars == << clockVars, loadVars, sideVars >>

----------------------------------------------------------------------------
(* Characters and strings (Python str methods and the regex classes used).  *)

\* The element of a singleton set. {e(x) : x \in {v}} evaluates v once and
\* binds x to its value: the operators below use it where a value is read
\* more than once.
The(S) == CHOOSE r \in S : TRUE

Ch(s, i) == SubSeq(s, i, i)

UpperChars == "ABCDEFGHIJKLMNOPQRSTUVWXYZ"
LowerChars == "abcdefghijklmnopqrstuvwxyz"
DigitChars == "0123456789"

IsIn(c, chars) == \E x \in {c} : Len(x) = 1 /\ \E k \in 1..Len(chars) : Ch(chars, k) = x
IndexIn(c, chars) == The({CHOOSE k \in 1..Len(chars) : Ch(chars, k) = x : x \in {c}})

IsUpper(c) == IsIn(c, UpperChars)
IsLower(c) == IsIn(c, LowerChars)
IsDigit(c) == IsIn(c, DigitChars)
IsAlpha(c) == \E x \in {c} : IsUpper(x) \/ IsLower(x)
\* \s of the regexes, str.strip()
IsSpace(c) == c \in {" ", "\t", "\n", "\r"}
\* \w of the regexes
IsWordCh(c) == \E x \in {c} : IsAlpha(x) \/ IsDigit(x) \/ x = "_"

LowerCh(c) ==
    The({IF IsUpper(x) THEN Ch(LowerChars, IndexIn(x, UpperChars)) ELSE x : x \in {c}})
UpperCh(c) ==
    The({IF IsLower(x) THEN Ch(UpperChars, IndexIn(x, LowerChars)) ELSE x : x \in {c}})

\* the least element of a set of positive numbers, 0 for the empty set
MinOrZero(S) == The({IF h = {} THEN 0 ELSE CHOOSE k \in h : \A j \in h : k <= j : h \in {S}})

\* str.lower() of s[lo..hi], by halves
RECURSIVE LowerRange(_, _, _)
LowerRange(s, lo, hi) ==
    IF lo > hi THEN ""
    ELSE IF lo = hi THEN LowerCh(Ch(s, lo))
    ELSE The({LowerRange(s, lo, mid) \o LowerRange(s, mid + 1, hi)
              : mid \in {(lo + hi) \div 2}})
\* str.lower()
Lower(s) == The({LowerRange(x, 1, Len(x)) : x \in {s}})

\* `sub in s`
Contains(s, sub) ==
    \E x \in {s} : \E i \in 1..(Len(x) - Len(sub) + 1) : SubSeq(x, i, i + Len(sub) - 1) = sub

\* s[i:].startswith(sub), i 1-based
StartsAt(s, i, sub) ==
    \E j \in {i} :
        /\ j >= 1
        /\ j + Len(sub) - 1 <= Len(s)
        /\ SubSeq(s, j, j + Len(sub) - 1) = sub

\* the first index >= i whose character is not whitespace (Len(s)+1 when none)
SkipSpace(s, i) ==
    The({CHOOSE j \in a..(Len(s) + 1) :
            /\ j > Len(s) \/ ~IsSpace(Ch(s, j))
            /\ \A k \in a..(j - 1) : IsSpace(Ch(s, k)) : a \in {i}})

\* the first index >= i whose character is not a digit
SkipDigits(s, i) ==
    The({CHOOSE j \in a..(Len(s) + 1) :
            /\ j > Len(s) \/ ~IsDigit(Ch(s, j))
            /\ \A k \in a..(j - 1) : IsDigit(Ch(s, k)) : a \in {i}})

\* str.strip()
Strip(s) ==
    The({LET keep == {i \in 1..Len(x) : ~IsSpace(Ch(x, i))}
         IN  IF keep = {} THEN ""
             ELSE SubSeq(x, CHOOSE i \in keep : \A j \in keep : i <= j,
                            CHOOSE i \in keep : \A j \in keep : i >= j) : x \in {s}})

\* str.title(): a letter is upper-cased after a non-letter, lower-cased after a letter
RECURSIVE TitleRange(_, _, _)
TitleRange(s, lo, hi) ==
    IF lo > hi THEN ""
    ELSE IF lo = hi
         THEN (IF lo > 1 /\ IsAlpha(Ch(s, lo - 1)) THEN LowerCh(Ch(s, lo))
               ELSE UpperCh(Ch(s, lo)))
    ELSE The({TitleRange(s, lo, mid) \o TitleRange(s, mid + 1, hi)
              : mid \in {(lo + hi) \div 2}})
Title(s) == The({TitleRange(x, 1, Len(x)) : x \in {s}})

\* int() of a string of decimal digits
RECURSIVE ParseIntTo(_, _)
ParseIntTo(s, n) ==
    IF n = 0 THEN 0
    ELSE 10 * ParseIntTo(s, n - 1) + (IndexIn(Ch(s, n), DigitChars) - 1)
ParseInt(s) == The({ParseIntTo(x, Len(x)) : x \in {s}})

\* the regex \b between s[i-1] and s[i] (1-based i; i may be Len(s)+1)
Boundary(s, i) ==
    \E j \in {i} :
        (j >= 2 /\ j - 1 <= Len(s) /\ IsWordCh(Ch(s, j - 1)))
            # (j >= 1 /\ j <= Len(s) /\ IsWordCh(Ch(s, j)))

----------------------------------------------------------------------------
(* JSON values as the plan dictionaries hold them. A dictionary is a        *)
(* function from its keys; a key that is absent is not in its DOMAIN.       *)

Null == [t |-> "null"]
Str(s) == [t |-> "str", s |-> s]
Num(n) == [t |-> "num", n |-> n]
Obj(m) == [t |-> "dict", m |-> m]
Lst(l) == [t |-> "list", l |-> l]

EmptyDict == [k \in {} |-> Null]

IsNull(v) == v.t = "null"
IsDict(v) == v.t = "dict"

\* dict.get(k) with the default None
Get(d, k) == The({IF k \in DOMAIN x THEN x[k] ELSE Null : x \in {d}})

\* d[k] = v
Put(d, k, v) ==
    The({[x \in (DOMAIN dd) \cup {k} |-> IF x = k THEN vv ELSE dd[x]] : dd \in {d}, vv \in {v}})

\* Python truthiness of a JSON value (`if not x`, `x or y`)
Truthy(v) ==
    \E x \in {v} :
        CASE x.t = "null" -> FALSE
          [] x.t = "str"  -> x.s # ""
          [] x.t = "num"  -> x.n # 0
          [] x.t = "dict" -> DOMAIN x.m # {}
          [] x.t = "list" -> Len(x.l) > 0

PLAN_KEYS == <<"time_range", "filters", "group_by", "order_by", "limit", "select">>

----------------------------------------------------------------------------
(* nlq_hf.py: the heuristic planner.                                        *)

\* the questions the text area can hold
Questions ==
    {"",
     "top 5 suppliers by spend last quarter",
     "show delayed air shipments from CN last 30 days",
     "show delayed road shipments from CN",
     "late shipments last 90 days",
     "Show risky shipments of Delta Textiles",
     "show air shipments",
     "top two lanes by delay",
     "top 3 supplier by spend",
     "orders between 2026-02-30 and 2026-03-05",
     "delayed and delivered shipments in all data"}

\* _WORD_TO_NUM, in the order of the dict (the order of the regex alternation)
WORD_TO_NUM ==
    << <<"one", "1">>, <<"two", "2">>, <<"three", "3">>, <<"four", "4">>,
       <<"five", "5">>, <<"six", "6">>, <<"seven", "7">>, <<"eight", "8">>,
       <<"nine", "9">>, <<"ten", "10">>, <<"eleven", "11">>, <<"twelve", "12">>,
       <<"thirteen", "13">>, <<"fourteen", "14">>, <<"fifteen", "15">> >>

\* DIMENSION_ALIASES, in the order of the dict
DIMENSION_ALIASES ==
    << <<"supplier", <<"supplier", "suppliers", "vendor", "vendors">> >>,
       <<"lane", <<"lane", "lanes">> >>,
       <<"mode", <<"mode", "modes">> >>,
       <<"status", <<"status", "statuses">> >> >>

\* STATUS_SYNONYMS["Delayed"]
STATUS_SYNONYMS_Delayed ==
    {"risky", "at risk", "risk", "behind schedule", "late", "delayed", "overdue",
     "running late", "lagging", "slipped"}

\* the number word that \b(one|two|...)\b matches at i, case-insensitively (0: none)
NumberWordAt(s, i) ==
    IF ~Boundary(s, i) THEN 0
    ELSE MinOrZero({k \in 1..Len(WORD_TO_NUM) : \E w \in {WORD_TO_NUM[k][1]} :
                        /\ i + Len(w) - 1 <= Len(s)
                        /\ Lower(SubSeq(s, i, i + Len(w) - 1)) = w
                        /\ Boundary(s, i + Len(w))})

\* _normalize_number_words_to_digits: re.sub over the text, left to right,
\* from one match to the next
RECURSIVE NormalizeFrom(_, _)
NormalizeFrom(s, i) ==
    The({IF j = 0 THEN SubSeq(s, i, Len(s))
         ELSE The({SubSeq(s, i, j - 1) \o WORD_TO_NUM[k][2]
                        \o NormalizeFrom(s, j + Len(WORD_TO_NUM[k][1]))
                   : k \in {NumberWordAt(s, j)}})
         : j \in {MinOrZero({x \in i..Len(s) : NumberWordAt(s, x) # 0})}})
normalize_number_words_to_digits(text) == The({NormalizeFrom(s, 1) : s \in {text}})

\* One match attempt of \b(?:top|limit)\s+(\d+)\s+(?:aliases)<suffix>\b at i:
\* the digits matched as a string, or "" when the pattern does not match at i.
TopMatchAt(s, i, aliases, suffix) ==
    IF ~(Boundary(s, i) /\ (StartsAt(s, i, "top") \/ StartsAt(s, i, "limit"))) THEN ""
    ELSE The({The({The({The({
            IF /\ b > a /\ c > b /\ d > c
               /\ \E k \in 1..Len(aliases) :
                     /\ StartsAt(s, d, aliases[k] \o suffix)
                     /\ Boundary(s, d + Len(aliases[k] \o suffix))
            THEN SubSeq(s, b, c - 1) ELSE ""
            : d \in {SkipSpace(s, c)}})
            : c \in {SkipDigits(s, b)}})
            : b \in {SkipSpace(s, a)}})
            : a \in {i + (IF StartsAt(s, i, "top") THEN 3 ELSE 5)}})

\* pat.search(q): the leftmost match of one pattern
TopSearch(s, aliases, suffix) ==
    The({IF i = 0 THEN "" ELSE TopMatchAt(s, i, aliases, suffix)
         : i \in {MinOrZero({j \in 1..Len(s) : TopMatchAt(s, j, aliases, suffix) # ""})}})

\* the list `patterns`: per dimension the plain pattern, then the one with a further s
TopPatterns ==
    [p \in 1..(2 * Len(DIMENSION_ALIASES)) |->
        [dim     |-> DIMENSION_ALIASES[(p + 1) \div 2][1],
         aliases |-> DIMENSION_ALIASES[(p + 1) \div 2][2],
         suffix  |-> IF p % 2 = 1 THEN "" ELSE "s"]]

\* extract_top_limit_from_text: the first pattern of the list that matches
extract_top_limit_from_text(query) ==
    The({The({
        IF p = 0 THEN Null
        ELSE Obj([k \in {"dimension", "n"} |->
                    IF k = "dimension" THEN Str(TopPatterns[p].dim)
                    ELSE Num(ParseInt(TopSearch(s, TopPatterns[p].aliases,
                                                TopPatterns[p].suffix)))])
        : p \in {MinOrZero({x \in DOMAIN TopPatterns :
                    TopSearch(s, TopPatterns[x].aliases, TopPatterns[x].suffix) # ""})}})
        : s \in {normalize_number_words_to_digits(Lower(query))}})

\* extract_top_limit_from_text(x) of each question, computed once
TopLimitOf == [x \in Questions |-> extract_top_limit_from_text(x)]

\* the character class [a-z0-9\-\s&\.] of the supplier regex
IsSupplierCh(c) == IsLower(c) \/ IsDigit(c) \/ IsSpace(c) \/ c \in {"-", "&", "."}

\* the first index >= i whose character is not of the class
SkipSupplierCh(s, i) ==
    The({IF j = 0 THEN Len(s) + 1 ELSE j
         : j \in {MinOrZero({k \in i..Len(s) : ~IsSupplierCh(Ch(s, k))})}})

\* One match attempt of (?:supplier|vendor)\s+([a-z0-9\-\s&\.]+) at i: the pair
\* <<TRUE, group 1>>, or <<FALSE, "">>. \s+ is greedy and gives back one space
\* when no character of the class follows the spaces.
SupplierMatchAt(s, i) ==
    IF ~(StartsAt(s, i, "supplier") \/ StartsAt(s, i, "vendor")) THEN <<FALSE, "">>
    ELSE The({The({The({
            IF b = a THEN <<FALSE, "">>
            ELSE IF c > b THEN <<TRUE, SubSeq(s, b, c - 1)>>
            ELSE IF b - a >= 2 THEN <<TRUE, SubSeq(s, b - 1, b - 1)>>
            ELSE <<FALSE, "">>
            : c \in {SkipSupplierCh(s, b)}})
            : b \in {SkipSpace(s, a)}})
            : a \in {i + (IF StartsAt(s, i, "supplier") THEN 8 ELSE 6)}})

\* re.search of the supplier regex: the leftmost match
SupplierSearch(s) ==
    The({IF i = 0 THEN <<FALSE, "">> ELSE SupplierMatchAt(s, i)
         : i \in {MinOrZero({j \in 1..Len(s) : SupplierMatchAt(s, j)[1]})}})

\* a plan value {"type": "last_n_days", "n": n}
LastNDays(n) ==
    Obj([k \in {"type", "n"} |-> IF k = "type" THEN Str("last_n_days") ELSE Num(n)])

\* a plan value {"metric": m, "direction": "desc"}
OrderDesc(metric) ==
    Obj([k \in {"metric", "direction"} |->
            IF k = "metric" THEN Str(metric) ELSE Str("desc")])

\* a plan value {"dimension": d, "n": n, "metric": m}
LimitOf(dim, n, metric) ==
    Obj([k \in {"dimension", "n", "metric"} |->
            IF k = "dimension" THEN dim ELSE IF k = "n" THEN n ELSE Str(metric)])

\* build_heuristic_plan: the time_range
heuristic_time_range(ql) ==
    IF Contains(ql, "last 30 days") THEN LastNDays(30)
    ELSE IF Contains(ql, "last 14 days") THEN LastNDays(14)
    ELSE IF Contains(ql, "last quarter") THEN LastNDays(90)
    ELSE Null

\* build_heuristic_plan: the filters
heuristic_filters(ql) ==
    The({IF m[1] THEN Put(f1, "supplier", Str(Title(Strip(m[2])))) ELSE f1
         : f1 \in {IF \E w \in STATUS_SYNONYMS_Delayed : Contains(ql, w)
                   THEN Put(EmptyDict, "status", Str("Delayed")) ELSE EmptyDict},
           m \in {SupplierSearch(ql)}})

\* build_heuristic_plan: the limit
heuristic_limit(query, ql) ==
    The({IF IsNull(top_info) THEN Null
         ELSE LimitOf(top_info.m["dimension"], top_info.m["n"],
                      IF Contains(ql, "delay") THEN "delay_days_vs_planned_eta"
                      ELSE IF Contains(ql, "on-time") \/ Contains(ql, "on time")
                           THEN "on_time_percent"
                      ELSE "total_landed_cost")
         : top_info \in {TopLimitOf[query]}})

\* build_heuristic_plan: group_by and order_by. `if limit:` is true of every
\* limit built above, a dictionary of three keys.
heuristic_order_by(ql, limit) ==
    IF Truthy(limit) THEN OrderDesc(limit.m["metric"].s)
    ELSE IF Contains(ql, "by spend") THEN OrderDesc("total_landed_cost")
    ELSE IF Contains(ql, "by delay") THEN OrderDesc("delay_days_vs_planned_eta")
    ELSE IF Contains(ql, "by on-time") \/ Contains(ql, "by on time")
         THEN OrderDesc("on_time_percent")
    ELSE Null

build_heuristic_plan(query) ==
    The({The({
        [k \in {"time_range", "filters", "group_by", "order_by", "limit", "select"} |->
            CASE k = "time_range" -> heuristic_time_range(ql)
              [] k = "filters"    -> Obj(heuristic_filters(ql))
              [] k = "group_by"   -> IF Truthy(limit) THEN limit.m["dimension"] ELSE Null
              [] k = "order_by"   -> heuristic_order_by(ql, limit)
              [] k = "limit"      -> limit
              [] k = "select"     -> Null]
        : limit \in {heuristic_limit(query, ql)}})
        : ql \in {Lower(query)}})

\* build_heuristic_plan(x) of each question, computed once
HeuristicPlanOf == [x \in Questions |-> build_heuristic_plan(x)]


----------------------------------------------------------------------------
(* llm_router.py: pulling a plan out of the reply text.                     *)

\* Stand-ins for the four typographic quote characters of _normalize_quotes
\* (U+201C, U+201D, U+2018, U+2019) and for the backquote of a code fence,
\* which a string of this module cannot hold.
LDQUO == "^"
RDQUO == "~"
LSQUO == "#"
RSQUO == "$"
BQUOTE == "%"
FENCE == BQUOTE \o BQUOTE \o BQUOTE

\* _strip_code_fences: re.sub(r"^[fence][a-zA-Z0-9_-]*\s*", "", t)
IsFenceTagCh(c) == IsAlpha(c) \/ IsDigit(c) \/ c \in {"_", "-"}
SkipFenceTag(s, i) ==
    The({IF j = 0 THEN Len(s) + 1 ELSE j
         : j \in {MinOrZero({k \in i..Len(s) : ~IsFenceTagCh(Ch(s, k))})}})
StripOpeningFence(t) ==
    IF StartsAt(t, 1, FENCE)
    THEN SubSeq(t, SkipSpace(t, SkipFenceTag(t, 4)), Len(t))
    ELSE t
\* _strip_code_fences: re.sub(r"\s*[fence]$", "", t); the index of the last
\* character that is kept
LastNonSpace(s, n) ==
    The({IF keep = {} THEN 0 ELSE CHOOSE i \in keep : \A j \in keep : i >= j
         : keep \in {{i \in 1..n : ~IsSpace(Ch(s, i))}}})
StripClosingFence(t) ==
    IF Len(t) >= 3 /\ StartsAt(t, Len(t) - 2, FENCE)
    THEN SubSeq(t, 1, LastNonSpace(t, Len(t) - 3))
    ELSE t

strip_code_fences(text) ==
    The({IF StartsAt(t, 1, FENCE)
         THEN The({Strip(StripClosingFence(o)) : o \in {StripOpeningFence(t)}})
         ELSE t : t \in {Strip(text)}})

RECURSIVE NormalizeQuotesRange(_, _, _)
NormalizeQuotesRange(s, lo, hi) ==
    IF lo > hi THEN ""
    ELSE IF lo = hi
         THEN The({IF c \in {LDQUO, RDQUO} THEN "\""
                   ELSE IF c \in {LSQUO, RSQUO} THEN "'" ELSE c : c \in {Ch(s, lo)}})
    ELSE The({NormalizeQuotesRange(s, lo, mid) \o NormalizeQuotesRange(s, mid + 1, hi)
              : mid \in {(lo + hi) \div 2}})
normalize_quotes(text) == The({NormalizeQuotesRange(s, 1, Len(s)) : s \in {text}})

\* the end of a match of ,\s*([}\]]) at i: the index of the bracket, or 0
TrailingCommaAt(s, i) ==
    IF Ch(s, i) # "," THEN 0
    ELSE The({IF j <= Len(s) /\ Ch(s, j) \in {"}", "]"} THEN j ELSE 0
              : j \in {SkipSpace(s, i + 1)}})

\* _remove_trailing_commas: re.sub(r",\s*([}\]])", r"\1", text), from one
\* match to the next
RECURSIVE RemoveCommasFrom(_, _)
RemoveCommasFrom(s, i) ==
    The({IF m = 0 THEN SubSeq(s, i, Len(s))
         ELSE SubSeq(s, i, m - 1) \o RemoveCommasFrom(s, TrailingCommaAt(s, m))
         : m \in {MinOrZero({x \in i..Len(s) : TrailingCommaAt(s, x) # 0})}})
remove_trailing_commas(text) == The({RemoveCommasFrom(s, 1) : s \in {text}})

\* s.find("{") as a 1-based index (0 when there is none)
FindBrace(s) == MinOrZero({i \in 1..Len(s) : Ch(s, i) = "{"})

\* _extract_json_object, line 36: `elif c == '\\\\'`. The literal is a string
\* of two backslashes; c is one character of the text.
IsEscapeChar(c) == c = "\\\\"

\* _extract_json_object: the state before the loop. res.done is set once the
\* function has returned res.text.
ScanStart(s) ==
    The({[i |-> start, start |-> start, depth |-> 0, in_str |-> FALSE, esc |-> FALSE,
          done |-> start = 0, text |-> IF start = 0 THEN s ELSE ""]
         : start \in {FindBrace(s)}})

\* _extract_json_object: the state after one character c of the loop
ScanChar(s, st, c, n) ==
    IF st.in_str
    THEN IF st.esc THEN [n EXCEPT !.esc = FALSE]
         ELSE IF IsEscapeChar(c) THEN [n EXCEPT !.esc = TRUE]
         ELSE IF c = "\"" THEN [n EXCEPT !.in_str = FALSE]
         ELSE n
    ELSE IF c = "\"" THEN [n EXCEPT !.in_str = TRUE]
         ELSE IF c = "{" THEN [n EXCEPT !.depth = st.depth + 1]
         ELSE IF c = "}"
              THEN IF st.depth - 1 = 0
                   THEN [st EXCEPT !.depth = 0, !.done = TRUE,
                                   !.text = SubSeq(s, st.start, st.i)]
                   ELSE [n EXCEPT !.depth = st.depth - 1]
         ELSE n

\* _extract_json_object: one iteration of the loop, or the return after it
ScanStep(s, st) ==
    The({IF x.i > Len(s) THEN [x EXCEPT !.done = TRUE, !.text = s]
         ELSE The({ScanChar(s, x, c, n) : c \in {Ch(s, x.i)}, n \in {[x EXCEPT !.i = x.i + 1]}})
         : x \in {st}})

\* the next index from st.i on at which an iteration does more than advance i
ScanStop(s, st) ==
    IF st.esc THEN st.i
    ELSE The({IF j = 0 THEN Len(s) + 1 ELSE j
              : j \in {MinOrZero({k \in st.i..Len(s) :
                            Ch(s, k) \in {"\"", "{", "}"} \/ IsEscapeChar(Ch(s, k))})}})

\* _extract_json_object: the loop run to its return; the iterations over the
\* characters that only advance i are taken together
RECURSIVE ScanRun(_, _)
ScanRun(s, st) ==
    The({IF x.done THEN x.text
         ELSE ScanRun(s, ScanStep(s, [x EXCEPT !.i = ScanStop(s, x)]))
         : x \in {st}})

extract_json_object(text) == The({ScanRun(s, ScanStart(s)) : s \in {text}})

----------------------------------------------------------------------------
(* The replies of the remote service that the model draws from: plan         *)
(* dictionaries (well-formed, partial and malformed), their JSON texts, and  *)
(* reply texts that wrap or damage such a text.                              *)

PlanAir == [filters |-> Obj([mode |-> Str("Air")])]
PlanAllNull ==
    [time_range |-> Null, filters |-> Null, group_by |-> Null,
     order_by |-> Null, limit |-> Null, select |-> Null]
PlanFiltersList == [filters |-> Lst(<<Str("status")>>)]
PlanFiltersStr == [filters |-> Str("status")]
PlanFiltersEmptyList == [filters |-> Lst(<<>>)]
PlanAllSet ==
    [time_range |-> Obj([type |-> Str("last_n_days"), n |-> Num(7)]),
     filters    |-> Obj([status |-> Str("Delivered")]),
     group_by   |-> Str("lane"),
     order_by   |-> Obj([metric |-> Str("spend"), direction |-> Str("asc")]),
     limit      |-> Obj([dimension |-> Str("lane"), n |-> Num(1), metric |-> Str("spend")]),
     select     |-> Lst(<<Str("lane")>>)]
PlanLimitNum == [limit |-> Num(5)]
PlanEmpty == EmptyDict
PlanStrings == [time_range |-> Str("last week"), order_by |-> Str("spend")]
PlanNote == [note |-> Str("a\"}")]

\* json.dumps of the plans above
TextPlanAir == "{\"filters\": {\"mode\": \"Air\"}}"
TextPlanAllNull ==
    "{\"time_range\": null, \"filters\": null, \"group_by\": null, "
    \o "\"order_by\": null, \"limit\": null, \"select\": null}"
TextPlanFiltersList == "{\"filters\": [\"status\"]}"
TextPlanFiltersStr == "{\"filters\": \"status\"}"
TextPlanFiltersEmptyList == "{\"filters\": []}"
TextPlanAllSet ==
    "{\"time_range\": {\"type\": \"last_n_days\", \"n\": 7}, "
    \o "\"filters\": {\"status\": \"Delivered\"}, \"group_by\": \"lane\", "
    \o "\"order_by\": {\"metric\": \"spend\", \"direction\": \"asc\"}, "
    \o "\"limit\": {\"dimension\": \"lane\", \"n\": 1, \"metric\": \"spend\"}, "
    \o "\"select\": [\"lane\"]}"
TextPlanLimitNum == "{\"limit\": 5}"
TextPlanEmpty == "{}"
TextPlanStrings == "{\"time_range\": \"last week\", \"order_by\": \"spend\"}"
TextPlanNote == "{\"note\": \"a\\\"}\"}"

\* reply texts that are not a bare JSON object
ContentProseWrapped == "Here is the plan: " \o TextPlanAir \o " Hope it helps."
ContentFenced == FENCE \o "json\n" \o TextPlanAir \o "\n" \o FENCE
ContentSmartQuoted == "{^filters~: {^mode~: ^Air~}}"
ContentTrailingComma == "{\"filters\": {\"mode\": \"Air\",},}"
ContentTwoObjects == "A " \o TextPlanAir \o " or " \o TextPlanLimitNum
ContentEscapedQuote == "Plan: " \o TextPlanNote
ContentJsonList == "[1, 2]"
ContentJsonNumber == "42"
ContentProse == "Sorry, I cannot help."
ContentBroken == "{broken"

\* json.loads: the value of every valid JSON text that the reply texts of the
\* model, or the candidates cut from them, can be; any other text of the model
\* is not valid JSON and json.loads raises on it.
JsonTable ==
    <<
       <<TextPlanAir, Obj(PlanAir)>>,
       <<TextPlanAllNull, Obj(PlanAllNull)>>,
       <<TextPlanFiltersList, Obj(PlanFiltersList)>>,
       <<TextPlanFiltersStr, Obj(PlanFiltersStr)>>,
       <<TextPlanFiltersEmptyList, Obj(PlanFiltersEmptyList)>>,
       <<TextPlanAllSet, Obj(PlanAllSet)>>,
       <<TextPlanLimitNum, Obj(PlanLimitNum)>>,
       <<TextPlanEmpty, Obj(PlanEmpty)>>,
       <<TextPlanStrings, Obj(PlanStrings)>>,
       <<TextPlanNote, Obj(PlanNote)>>,
       <<"[1, 2]", Lst(<<Num(1), Num(2)>>)>>,
       <<"42", Num(42)>>
    >>


NotJson == [t |-> "notjson"]

json_loads(s) ==
    The({The({IF k = 0 THEN NotJson ELSE t[k][2]
              : k \in {MinOrZero({j \in 1..Len(t) : t[j][1] = s})}})
         : t \in {JsonTable}})

\* _coerce_to_json_dict_or_none: the slow path, after json.loads(content) raised
coerce_slow_path(content) ==
    The({IF slow # NotJson /\ IsDict(slow) THEN slow ELSE Null
         : slow \in {json_loads(remove_trailing_commas(extract_json_object(
                        normalize_quotes(strip_code_fences(content)))))}})

\* _coerce_to_json_dict_or_none: a dictionary, or None
coerce_to_json_dict_or_none(content) ==
    The({IF fast # NotJson THEN (IF IsDict(fast) THEN fast ELSE Null)
         ELSE coerce_slow_path(content)
         : fast \in {json_loads(content)}})

----------------------------------------------------------------------------
(* llm_router.py: the HTTP exchanges of llm_plan_via_hf_router.             *)

\* What requests.post gives: an exception (Timeout, ConnectionError), or a
\* response with its status code, its body text and the value resp.json()
\* parses from it (NotJson when resp.json() raises).
HttpRaised == [kind |-> "exc"]
Resp(status, text, json) == [kind |-> "resp", status |-> status, text |-> text, json |-> json]
NoResp == [kind |-> "none"]

\* the reply texts a choice can carry
ReplyTexts ==
    {TextPlanAir, TextPlanAllNull, TextPlanFiltersList, TextPlanFiltersStr,
     TextPlanFiltersEmptyList, TextPlanAllSet, TextPlanLimitNum, TextPlanEmpty,
     TextPlanStrings, TextPlanNote,
     ContentProseWrapped, ContentFenced, ContentSmartQuoted, ContentTrailingComma,
     ContentTwoObjects, ContentEscapedQuote, ContentJsonList, ContentJsonNumber,
     ContentProse, ContentBroken}

\* _coerce_to_json_dict_or_none(c) of each reply text, computed once
CoercedOf == [c \in ReplyTexts |-> coerce_to_json_dict_or_none(c)]

\* a body {"choices": [choice]}
Choices(choice) == Obj([choices |-> Lst(<<choice>>)])

\* bodies of a chat response with a success status
ChatBodies ==
    {Choices(Obj([message |-> Obj([role |-> Str("assistant"), content |-> Str(c)])])) :
        c \in ReplyTexts}
    \cup {Choices(Obj([text |-> Str(TextPlanAir)])),
          Choices(Obj([message |-> Obj([content |-> Null,
                                        reasoning_content |-> Str(TextPlanAir)])])),
          Choices(Obj([generated_text |-> Str(ContentProse)])),
          Choices(Obj([message |-> Obj([content |-> Str("  ")])])),
          Choices(Obj([message |-> Str("hello")])),
          Choices(Str("x")),
          Obj([choices |-> Lst(<<>>)]),
          Obj([choices |-> Obj([first |-> Null])]),
          Obj(EmptyDict),
          Lst(<<>>),
          NotJson}

\* bodies of a completion response with a success status
ComplBodies ==
    {Choices(Obj([text |-> Str(c)])) : c \in ReplyTexts}
    \cup {Choices(Obj([text |-> Str(" ")])),
          Choices(Obj([message |-> Obj([content |-> Str(TextPlanAir)])])),
          Choices(Num(1)),
          Obj([choices |-> Null]),
          Obj(EmptyDict),
          Lst(<<>>),
          NotJson}

\* bodies of an error response: <<text, resp.json()>>
ErrNotChat ==
    <<"{\"error\": {\"message\": \"The requested model is not a chat model.\"}}",
      Obj([error |-> Obj([message |-> Str("The requested model is not a chat model.")])])>>
ErrNotSupported ==
    <<"{\"error\": {\"code\": \"model_not_supported\"}}",
      Obj([error |-> Obj([code |-> Str("model_not_supported")])])>>
ErrRespFormat == <<"Unknown parameter: Response_Format", NotJson>>
ErrRateLimit ==
    <<"{\"error\": \"Rate limit exceeded\"}", Obj([error |-> Str("Rate limit exceeded")])>>
ErrPlain == <<"Service Unavailable", NotJson>>
ErrBodies == {ErrNotChat, ErrNotSupported, ErrRespFormat, ErrRateLimit, ErrPlain}

ChatOutcomes ==
    {HttpRaised}
    \cup {Resp(200, "", b) : b \in ChatBodies}
    \cup {Resp(400, e[1], e[2]) : e \in ErrBodies}
    \cup {Resp(404, ErrNotChat[1], ErrNotChat[2]),
          Resp(429, ErrRateLimit[1], ErrRateLimit[2]),
          Resp(503, ErrPlain[1], ErrPlain[2])}

ComplOutcomes ==
    {HttpRaised}
    \cup {Resp(200, "", b) : b \in ComplBodies}
    \cup {Resp(400, ErrNotSupported[1], ErrNotSupported[2]),
          Resp(429, ErrRateLimit[1], ErrRateLimit[2]),
          Resp(503, ErrPlain[1], ErrPlain[2])}

\* what an expression of the router evaluates to when it raises
Raises == [t |-> "raise"]

\* isinstance(v, str) and v.strip()
NonBlankStr(v) == v.t = "str" /\ Strip(v.s) # ""

\* `choices = data.get("choices") or []`, then `first = choices[0]`: the first
\* choice, None when `not choices`, Raises when data has no get, or choices
\* cannot be indexed by 0
FirstChoice(data) ==
    IF ~IsDict(data) THEN Raises
    ELSE The({IF ~Truthy(choices) THEN Null
              ELSE IF choices.t = "list" THEN choices.l[1]
              ELSE IF choices.t = "str" THEN Str(Ch(choices.s, 1))
              ELSE Raises
              : choices \in {Get(data.m, "choices")}})

\* _extract_content_from_chat, lines 90-99: the content of a choice that is a dict
content_of_chat_choice(first) ==
    The({IF NonBlankStr(Get(first.m, "text")) THEN Get(first.m, "text")
         ELSE IF IsDict(msg) /\ NonBlankStr(Get(msg.m, "content"))
              THEN Get(msg.m, "content")
         ELSE IF IsDict(msg) /\ NonBlankStr(Get(msg.m, "reasoning_content"))
              THEN Get(msg.m, "reasoning_content")
         ELSE IF NonBlankStr(Get(first.m, "generated_text"))
              THEN Get(first.m, "generated_text")
         ELSE Null
         : msg \in {Get(first.m, "message")}})

\* _extract_content_from_chat: the content, None, or Raises
extract_content_from_chat(data) ==
    The({IF first = Raises \/ IsNull(first) THEN first
         ELSE IF ~IsDict(first) THEN Raises
         ELSE content_of_chat_choice(first)
         : first \in {FirstChoice(data)}})

\* _extract_content_from_completions: the content, None, or Raises
extract_content_from_completions(data) ==
    The({IF first = Raises \/ IsNull(first) THEN first
         ELSE IF ~IsDict(first) THEN Raises
         ELSE IF NonBlankStr(Get(first.m, "text")) THEN Get(first.m, "text")
         ELSE Null
         : first \in {FirstChoice(data)}})

\* lines 147-151: err_str. The bodies of the model are in the form json.dumps
\* writes, so json.dumps(resp.json()) is the body text.
ErrStr(o) == o.text

\* a faulty NotChatStyle: every error body counts as "not a chat model"
AnyErrStr(err_str) == TRUE

\* line 152
NotChatStyle(err_str) ==
    \E e \in {Lower(err_str)} :
        \/ Contains(e, "not a chat model")
        \/ Contains(e, "model_not_supported")
        \/ Contains(e, "response_format")

\* What a stretch of llm_plan_via_hf_router ends in: an exception, the
\* completion request, or a return (of a plan parsed from the reply, or of
\* build_heuristic_plan(query)).
SendCompletion == [t |-> "completion"]
Return(plan, isParsed) == [t |-> "return", plan |-> plan, parsed |-> isParsed]
\* a faulty ReturnHeuristic: an empty plan instead of the heuristic one
ReturnEmptyPlan(query) == Return(EmptyDict, FALSE)
ReturnHeuristic(query) == Return(HeuristicPlanOf[query], FALSE)

\* `plan = _coerce_to_json_dict_or_none(content)`;
\* `return plan if plan is not None else build_heuristic_plan(query)`
PlanOrHeuristic(query, content) ==
    The({IF ~IsNull(plan) THEN Return(plan.m, TRUE) ELSE ReturnHeuristic(query)
         : plan \in {CoercedOf[content]}})

\* lines 162-171: the completion reply after a "not a chat model" error
AfterCompletionNotChat(query, o) ==
    IF o.kind = "exc" THEN Raises
    ELSE IF o.status >= 400 THEN ReturnHeuristic(query)
    ELSE IF o.json = NotJson THEN Raises
    ELSE The({IF content2 = Raises THEN Raises
              ELSE IF ~Truthy(content2) THEN ReturnHeuristic(query)
              ELSE PlanOrHeuristic(query, content2.s)
              : content2 \in {extract_content_from_completions(o.json)}})

\* a faulty AfterCompletionNoContent: the completion request is sent again
RetryCompletion(query, o) == SendCompletion

\* lines 182-195: the completion reply after a chat reply without content
AfterCompletionNoContent(query, o) ==
    IF o.kind = "exc" THEN Raises
    ELSE IF o.status < 400
         THEN IF o.json = NotJson THEN Raises
              ELSE The({IF content2 = Raises THEN Raises
                        ELSE IF Truthy(content2) THEN PlanOrHeuristic(query, content2.s)
                        ELSE ReturnHeuristic(query)
                        : content2 \in {extract_content_from_completions(o.json)}})
         ELSE ReturnHeuristic(query)

\* lines 144-198 up to the completion request: the chat reply
AfterChat(query, o) ==
    IF o.kind = "exc" THEN Raises
    ELSE IF o.status = 400 /\ NotChatStyle(ErrStr(o)) THEN SendCompletion
    ELSE IF o.status >= 400 THEN ReturnHeuristic(query)
    ELSE IF o.json = NotJson THEN Raises
    ELSE The({IF content = Raises THEN Raises
              ELSE IF ~Truthy(content) THEN SendCompletion
              ELSE PlanOrHeuristic(query, content.s)
              : content \in {extract_content_from_chat(o.json)}})

----------------------------------------------------------------------------
(* Dates as day numbers (days since 2000-01-01), for years 2000..2099.      *)

IsLeap(y) == y % 4 = 0 /\ (y % 100 # 0 \/ y % 400 = 0)
DaysInMonth(y, m) ==
    IF m = 2 THEN (IF IsLeap(y) THEN 29 ELSE 28)
    ELSE IF m \in {4, 6, 9, 11} THEN 30 ELSE 31
\* the days of the year before the first of month m
DaysBeforeMonth(y, m) ==
    <<0, 31, 59, 90, 120, 151, 181, 212, 243, 273, 304, 334>>[m]
        + (IF m > 2 /\ IsLeap(y) THEN 1 ELSE 0)
DayNumber(y, m, d) ==
    365 * (y - 2000) + ((y - 2000) + 3) \div 4 + DaysBeforeMonth(y, m) + (d - 1)

\* pd.Timestamp.utcnow().normalize(): the day of the run
Today == <<2026, 11, 5>>
TodayNumber == DayNumber(Today[1], Today[2], Today[3])

----------------------------------------------------------------------------
(* The dataset: data_source_picker's result, the validated shipment table    *)
(* with its derived columns. A table is the sequence of its row numbers, in  *)
(* row order; Data holds the rows.                                           *)

\* constants.EXPECTED_COLS and the columns derive_features adds
DataColumns ==
    {"po_number", "supplier", "origin_country", "destination_country", "lane", "mode",
     "incoterm", "status", "quantity", "unit_price", "freight_cost", "duty_cost",
     "shipment_id", "po_date", "planned_ship_date", "actual_ship_date", "planned_eta",
     "actual_eta", "po_value", "total_landed_cost", "lead_time_days",
     "transit_time_days", "delay_days_vs_planned_eta", "on_time", "risk_flag"}

\* the columns whose cells the model holds: text and numbers
TextColumns == {"supplier", "lane", "mode", "status", "origin_country"}
NumberColumns ==
    {"po_value", "total_landed_cost", "lead_time_days", "delay_days_vs_planned_eta",
     "on_time"}

Data ==
    << [supplier |-> "Delta Textiles", lane |-> "CN->IN", mode |-> "Air",
        status |-> "Delayed", origin_country |-> "CN",
        po_date |-> DayNumber(2026, 10, 20), po_value |-> 400,
        total_landed_cost |-> 500, lead_time_days |-> 12,
        delay_days_vs_planned_eta |-> 9, on_time |-> 0],
       [supplier |-> "Echo Electronics", lane |-> "VN->IN", mode |-> "Ocean",
        status |-> "Delivered", origin_country |-> "VN",
        po_date |-> DayNumber(2026, 9, 1), po_value |-> 250,
        total_landed_cost |-> 300, lead_time_days |-> 20,
        delay_days_vs_planned_eta |-> 0, on_time |-> 1],
       [supplier |-> "Delta Textiles", lane |-> "CN->IN", mode |-> "Ocean",
        status |-> "In-Transit", origin_country |-> "CN",
        po_date |-> DayNumber(2026, 6, 15), po_value |-> 260,
        total_landed_cost |-> 300, lead_time_days |-> 30,
        delay_days_vs_planned_eta |-> 2, on_time |-> 0],
       [supplier |-> "Foxtrot Fasteners", lane |-> "US->IN", mode |-> "Road",
        status |-> "Delayed", origin_country |-> "US",
        po_date |-> DayNumber(2025, 12, 1), po_value |-> 150,
        total_landed_cost |-> 200, lead_time_days |-> 8,
        delay_days_vs_planned_eta |-> 15, on_time |-> 0],
       [supplier |-> "Crescent Metals", lane |-> "CN->IN", mode |-> "Air",
        status |-> "Delivered", origin_country |-> "CN",
        po_date |-> DayNumber(2024, 5, 5), po_value |-> 800,
        total_landed_cost |-> 900, lead_time_days |-> 15,
        delay_days_vs_planned_eta |-> -1, on_time |-> 1],
       [supplier |-> "Golf Glass", lane |-> "VN->IN", mode |-> "Ocean",
        status |-> "Delivered", origin_country |-> "VN",
        po_date |-> DayNumber(2024, 6, 1), po_value |-> 80,
        total_landed_cost |-> 100, lead_time_days |-> 10,
        delay_days_vs_planned_eta |-> 0, on_time |-> 1],
       [supplier |-> "Hotel Hardware", lane |-> "VN->IN", mode |-> "Ocean",
        status |-> "Delivered", origin_country |-> "VN",
        po_date |-> DayNumber(2024, 7, 1), po_value |-> 40,
        total_landed_cost |-> 50, lead_time_days |-> 10,
        delay_days_vs_planned_eta |-> 0, on_time |-> 1] >>

AllRows == [i \in 1..Len(Data) |-> i]

\* df[mask]: the rows of df that are in keep, in the order of df
Keep(df, keep) == The({SelectSeq(df, LAMBDA i : i \in k) : k \in {keep}})

RowsOf(df) == {df[i] : i \in 1..Len(df)}

\* df[col].unique(): the values of a column in the order of first appearance
Unique(df, col) ==
    The({The({[k \in 1..Len(firsts) |-> v[firsts[k]]]
              : firsts \in {SelectSeq([i \in 1..Len(v) |-> i],
                                      LAMBDA i : \A j \in 1..(i - 1) : v[j] # v[i])}})
         : v \in {[i \in 1..Len(df) |-> Data[df[i]][col]]}})

\* ASCII, for the order of strings
AsciiChars ==
    " !\"#$%&'()*+,-./0123456789:;<=>?@ABCDEFGHIJKLMNOPQRSTUVWXYZ[\\]^_"
    \o "abcdefghijklmnopqrstuvwxyz{|}~"

\* a < b for strings (the order groupby sorts its keys in)
StrLess(a, b) ==
    \E x \in {a}, y \in {b} :
        \/ \E i \in 1..Len(y) :
              /\ i <= Len(x)
              /\ SubSeq(x, 1, i - 1) = SubSeq(y, 1, i - 1)
              /\ IndexIn(Ch(x, i), AsciiChars) < IndexIn(Ch(y, i), AsciiChars)
        \/ Len(x) < Len(y) /\ x = SubSeq(y, 1, Len(x))

----------------------------------------------------------------------------
(* filters.py: the sidebar selection and apply_filters.                     *)

\* _data_min_max, _default_year_range over the dataset
DataMaxDate ==
    CHOOSE d \in {Data[i].po_date : i \in 1..Len(Data)} :
        \A i \in 1..Len(Data) : Data[i].po_date <= d
DataMinDate ==
    CHOOSE d \in {Data[i].po_date : i \in 1..Len(Data)} :
        \A i \in 1..Len(Data) : Data[i].po_date >= d
DefaultYearRange ==
    << IF DataMinDate > DataMaxDate - 365 THEN DataMinDate ELSE DataMaxDate - 365,
       DataMaxDate >>

\* FilterState values the sidebar can return
FilterState(range, supplier, lane, mode, status) ==
    [date_range |-> range, supplier |-> supplier, lane |-> lane, mode |-> mode,
     status |-> status]
Sidebars ==
    {FilterState(DefaultYearRange, "All", "All", "All", "All"),
     FilterState(<<DataMinDate, DataMaxDate>>, "All", "All", "All", "All"),
     FilterState(DefaultYearRange, "All", "All", "Ocean", "All")}

apply_filters(df, f) ==
    Keep(df, {i \in RowsOf(df) : \E r \in {Data[i]} :
                /\ r.po_date >= f.date_range[1]
                /\ r.po_date < f.date_range[2] + 1
                /\ (f.supplier # "All" => r.supplier = f.supplier)
                /\ (f.lane # "All" => r.lane = f.lane)
                /\ (f.mode # "All" => r.mode = f.mode)
                /\ (f.status # "All" => r.status = f.status)})

----------------------------------------------------------------------------
(* planner.py: the plan executor.                                           *)

\* a stage's result: a table, or an exception
Ok(df) == [t |-> "ok", df |-> df]

\* _METRIC_ALIASES
METRIC_ALIASES ==
    [spend |-> "total_landed_cost", total_spend |-> "total_landed_cost",
     landed_cost |-> "total_landed_cost", cost |-> "total_landed_cost",
     delay_days |-> "delay_days_vs_planned_eta", avg_delay |-> "delay_days_vs_planned_eta",
     on_time_percent |-> "on_time_percent"]
    @@ ("on_time_%" :> "on_time_percent") @@ ("on-time %" :> "on_time_percent")

\* _DIMENSIONS
DIMENSIONS == {"supplier", "lane", "mode", "status"}

\* _METRIC_ALIASES.get(name, name)
AliasToColumn(name) == IF name \in DOMAIN METRIC_ALIASES THEN METRIC_ALIASES[name] ELSE name

\* _resolve_metric: the column name, None, or Raises for a metric that cannot
\* be a dictionary key (a non-empty list or dictionary)
SPEND_ALIASES == <<"spend", "total_spend", "landed_cost", "cost">>
resolve_metric(metric) ==
    \* lines 24-28: the first spend alias that is a column
    IF ~Truthy(metric)
    THEN The({IF k = 0 THEN Null ELSE Str(AliasToColumn(SPEND_ALIASES[k]))
              : k \in {MinOrZero({j \in 1..Len(SPEND_ALIASES) :
                            AliasToColumn(SPEND_ALIASES[j]) \in DataColumns})}})
    ELSE IF metric.t \in {"list", "dict"} THEN Raises
    ELSE IF metric.t = "str" /\ AliasToColumn(metric.s) \in DataColumns
         THEN Str(AliasToColumn(metric.s))
    ELSE Null

\* out[k] == v for one row: the cell of a column the model holds against a
\* JSON scalar
CellEquals(i, col, v) ==
    \/ col \in TextColumns /\ v.t = "str" /\ Data[i][col] = v.s
    \/ col \in NumberColumns /\ v.t = "num" /\ Data[i][col] = v.n

\* a faulty EntryKeeps: a list is compared like a scalar
EntryEquals(i, col, v) == CellEquals(i, col, v)

\* one entry of the filters: isin for a list, equality for a scalar
EntryKeeps(i, col, v) ==
    IF v.t = "list" THEN \E x \in 1..Len(v.l) : CellEquals(i, col, v.l[x])
    ELSE CellEquals(i, col, v)

\* _apply_filters: `filters.items()` raises on a list, a string or a number
plan_apply_filters(df, filters) ==
    IF ~Truthy(filters) THEN Ok(df)
    ELSE IF ~IsDict(filters) THEN Raises
    ELSE Ok(Keep(df, {i \in RowsOf(df) :
                        \A k \in DOMAIN filters.m :
                            k \in DataColumns => EntryKeeps(i, k, filters.m[k])}))

\* the candidates of _apply_time_range, in order
TS_CANDIDATES == <<"created_at", "shipment_date", "eta", "updated_at", "date">>

\* ts_col: the first candidate that is a column, "" for None
TsCol ==
    The({IF k = 0 THEN "" ELSE TS_CANDIDATES[k]
         : k \in {MinOrZero({j \in 1..Len(TS_CANDIDATES) : TS_CANDIDATES[j] \in DataColumns})}})

\* int(x) of a JSON value: <<TRUE, n>>, or <<FALSE, 0>> when int raises
IntOf(v) ==
    The({IF x.t = "num" THEN <<TRUE, x.n>>
         ELSE IF x.t = "str" /\ x.s # "" /\ \A k \in 1..Len(x.s) : IsDigit(Ch(x.s, k))
              THEN <<TRUE, ParseInt(x.s)>>
         ELSE <<FALSE, 0>> : x \in {v}})

\* dict.get(k, default)
GetOr(d, k, default) == The({IF k \in DOMAIN x THEN x[k] ELSE default : x \in {d}})

\* the timestamp of a row: the additional column "date" of a table holds the
\* day of the order
TsCell(i, ts_col) == IF ts_col = "date" THEN Data[i]["po_date"] ELSE Data[i][ts_col]

\* _apply_time_range on a table whose timestamp column is ts_col ("" for
\* none), run on the day today: a row is kept when its timestamp is at or
\* after utcnow() - n days, that is when its day is after today - n
time_range_at(df, time_range, ts_col, today) ==
    IF ~Truthy(time_range) THEN Ok(df)
    ELSE IF ts_col = "" THEN Ok(df)
    ELSE IF ~IsDict(time_range) THEN Raises
    ELSE IF Get(time_range.m, "type") = Str("last_n_days")
         THEN The({IF ~n[1] THEN Raises
                   ELSE Ok(Keep(df, {i \in RowsOf(df) : TsCell(i, ts_col) > today - n[2]}))
                   : n \in {IntOf(GetOr(time_range.m, "n", Num(30)))}})
    ELSE Ok(df)

\* _apply_time_range on the shipment table, today
plan_apply_time_range(df, time_range) ==
    time_range_at(df, time_range, TsCol, TodayNumber)

\* the values of column dim over df
GroupKeys(df, dim) == {Data[i][dim] : i \in RowsOf(df)}

\* sum of a column over the rows of df whose dim is key
RECURSIVE SumTo(_, _)
SumTo(v, n) == IF n = 0 THEN 0 ELSE SumTo(v, n - 1) + v[n]
GroupSum(df, dim, key, col) ==
    The({SumTo(v, Len(v))
         : v \in {[i \in 1..Len(df) |->
                    The({IF r[dim] = key THEN r[col] ELSE 0 : r \in {Data[df[i]]}})]}})

\* the number of rows of df whose dim is key
GroupSize(df, dim, key) == Cardinality({i \in RowsOf(df) : Data[i][dim] = key})

\* a faulty TopKeys: the first n keys, whatever their aggregates
FirstKeys(keys, agg, n) ==
    The({{k \in ks : Cardinality({x \in ks : StrLess(x, k)}) < n} : ks \in {keys}})

\* groupby(dim)...sort_values(ascending=False).head(n): groupby sorts the keys,
\* the sort keeps groups of equal aggregate in that order (it is stable for a
\* table of a few groups), so a key precedes another when its aggregate is
\* greater, or equal with a smaller key. agg[key] is a fraction <<num, den>>.
TopKeys(keys, agg, n) ==
    The({LET Gt(a, b) == a[1] * b[2] > b[1] * a[2]
             Eq(a, b) == a[1] * b[2] = b[1] * a[2]
             Precedes(x, y) == Gt(g[x], g[y]) \/ (Eq(g[x], g[y]) /\ StrLess(x, y))
         IN  {k \in ks : Cardinality({x \in ks : Precedes(x, k)}) < n}
         : ks \in {keys}, g \in {[k \in keys |-> agg[k]]}})

\* a faulty limit_top_rows: the groups are ranked over the whole dataset
rank_whole_input(df, dim, n, metric_col) ==
    The({Keep(df, {i \in RowsOf(df) : Data[i][dim] \in top})
         : top \in {The({TopKeys(keys,
                                 [k \in keys |->
                                    IF IsNull(metric_col)
                                    THEN <<GroupSize(AllRows, dim, k), 1>>
                                    ELSE <<GroupSum(AllRows, dim, k, metric_col.s), 1>>],
                                 n) : keys \in {GroupKeys(AllRows, dim)}})}})

\* _apply_limit, lines 86-95: the rows of the top n groups; metric_col is a
\* column name or None
limit_top_rows(df, dim, n, metric_col) ==
    The({Keep(df, {i \in RowsOf(df) : Data[i][dim] \in top})
         : top \in {The({TopKeys(keys,
                                 [k \in keys |->
                                    IF IsNull(metric_col) THEN <<GroupSize(df, dim, k), 1>>
                                    ELSE <<GroupSum(df, dim, k, metric_col.s), 1>>],
                                 n) : keys \in {GroupKeys(df, dim)}})}})

\* _apply_limit, lines 76-95: after `dim` is known
limit_by_dimension(df, limit, dim) ==
    IF dim \notin DIMENSIONS \/ dim \notin DataColumns THEN Ok(df)
    ELSE The({IF ~n[1] \/ n[2] <= 0 THEN Ok(df)
              ELSE The({IF col = Raises THEN Raises ELSE Ok(limit_top_rows(df, dim, n[2], col))
                        : col \in {resolve_metric(Get(limit.m, "metric"))}})
              : n \in {IntOf(GetOr(limit.m, "n", Num(5)))}})

\* _apply_limit
plan_apply_limit(df, limit) ==
    IF ~Truthy(limit) THEN Ok(df)
    ELSE IF ~IsDict(limit) THEN Raises
    ELSE The({IF ~Truthy(dimv) THEN limit_by_dimension(df, limit, "")
              ELSE IF dimv.t # "str" THEN Raises
              ELSE limit_by_dimension(df, limit, Strip(dimv.s))
              : dimv \in {Get(limit.m, "dimension")}})

\* apply_llm_plan: time range, then filters, then limit
apply_llm_plan(df, plan) ==
    The({IF a = Raises THEN Raises
         ELSE The({IF b = Raises THEN Raises
                   ELSE plan_apply_limit(b.df, Get(plan, "limit"))
                   : b \in {plan_apply_filters(a.df, Get(plan, "filters"))}})
         : a \in {plan_apply_time_range(df, Get(plan, "time_range"))}})

----------------------------------------------------------------------------
(* nlq.py: the fallback parser apply_prompt_filters.                        *)

\* _METRIC_MAP, in the order of the dict: key, column, aggregation
METRIC_MAP ==
    << <<"spend", "total_landed_cost", "sum">>,
       <<"value", "po_value", "sum">>,
       <<"lead time", "lead_time_days", "mean">>,
       <<"delay", "delay_days_vs_planned_eta", "mean">>,
       <<"on-time", "on_time", "mean">> >>

\* _DIM_MAP, in the order of the dict
DIM_MAP ==
    << <<"supplier", "supplier">>, <<"suppliers", "supplier">>,
       <<"lane", "lane">>, <<"lanes", "lane">>,
       <<"mode", "mode">>, <<"modes", "mode">>,
       <<"origin", "origin_country">>, <<"origins", "origin_country">>,
       <<"status", "status">>, <<"statuses", "status">> >>

\* _STATUS and _MODE: sets, iterated in an order the interpreter chooses
STATUS_WORDS == {"delayed", "delivered", "in-transit", "in transit", "cancelled", "canceled"}
MODE_WORDS == {"air", "ocean", "road"}

\* str.capitalize()
Capitalize(w) ==
    The({IF x = "" THEN "" ELSE UpperCh(Ch(x, 1)) \o Lower(SubSeq(x, 2, Len(x))) : x \in {w}})

\* _status_from_text: the values it can return ("" for None); the first word
\* of the set's iteration that occurs in the text decides
status_from_text(text) ==
    The({IF hits = {} THEN {""}
         ELSE {IF w \in {"in-transit", "in transit"} THEN "In-Transit" ELSE Capitalize(w) :
                 w \in hits}
         : hits \in {{w \in STATUS_WORDS : Contains(text, w)}}})

\* _mode_from_text: the values it can return ("" for None)
mode_from_text(text) ==
    The({IF hits = {} THEN {""} ELSE {Capitalize(w) : w \in hits}
         : hits \in {{w \in MODE_WORDS : Contains(text, w)}}})

\* [A-Z]{2} at i
TwoUpperAt(s, i) == i + 1 <= Len(s) /\ IsUpper(Ch(s, i)) /\ IsUpper(Ch(s, i + 1))

\* one match attempt of \bfrom\s+([A-Z]{2})\b at i: group 1, or ""
OriginMatchAt(s, i) ==
    IF ~(Boundary(s, i) /\ StartsAt(s, i, "from")) THEN ""
    ELSE The({IF b > i + 4 /\ TwoUpperAt(s, b) /\ Boundary(s, b + 2)
              THEN SubSeq(s, b, b + 1) ELSE ""
              : b \in {SkipSpace(s, i + 4)}})

\* _origin_from_text ("" for None)
origin_from_text(text) ==
    The({IF i = 0 THEN "" ELSE OriginMatchAt(text, i)
         : i \in {MinOrZero({j \in 1..Len(text) : OriginMatchAt(text, j) # ""})}})

\* the first element of a sequence of strings whose lower case occurs in text
FirstOccurring(values, text) ==
    The({The({IF k = 0 THEN "" ELSE v[k]
              : k \in {MinOrZero({j \in 1..Len(v) : Contains(text, Lower(v[j]))})}})
         : v \in {values}})

\* _supplier_from_text ("" for None)
supplier_from_text(text) == FirstOccurring(Unique(AllRows, "supplier"), text)

\* one match attempt of \b([A-Z]{2})->([A-Z]{2})\b at i: group 0, or ""
LaneMatchAt(s, i) ==
    IF /\ Boundary(s, i) /\ TwoUpperAt(s, i) /\ StartsAt(s, i + 2, "->")
       /\ TwoUpperAt(s, i + 4) /\ Boundary(s, i + 6)
    THEN SubSeq(s, i, i + 5) ELSE ""

\* _lane_from_text: the match of the explicit lane pattern, "" for none
LaneSearch(text) ==
    The({IF i = 0 THEN "" ELSE LaneMatchAt(text, i)
         : i \in {MinOrZero({j \in 1..Len(text) : LaneMatchAt(text, j) # ""})}})

\* _lane_from_text ("" for None)
lane_from_text(text) ==
    The({IF lane # "" /\ \E k \in 1..Len(lanes) : lanes[k] = lane THEN lane
         ELSE FirstOccurring(lanes, text)
         : lane \in {LaneSearch(text)}, lanes \in {Unique(AllRows, "lane")}})

\* \d{4}-\d{2}-\d{2} at i
DateAt(s, i) ==
    /\ i + 9 <= Len(s)
    /\ \A k \in {0, 1, 2, 3, 5, 6, 8, 9} : IsDigit(Ch(s, i + k))
    /\ Ch(s, i + 4) = "-" /\ Ch(s, i + 7) = "-"

\* pd.to_datetime of a YYYY-MM-DD text: <<TRUE, day number>>, or <<FALSE, 0>>
\* when it raises (no such day, or a year a Timestamp cannot hold)
to_datetime(d) ==
    The({IF y < 1678 \/ y > 2261 THEN <<FALSE, 0>>
         ELSE IF m >= 1 /\ m <= 12 /\ dd >= 1 /\ dd <= DaysInMonth(y, m)
         THEN <<TRUE, DayNumber(y, m, dd)>>
         \* the date parser reads a middle number above 12 as the day
         ELSE IF m > 12 /\ dd >= 1 /\ dd <= 12 /\ m <= DaysInMonth(y, dd)
         THEN <<TRUE, DayNumber(y, dd, m)>>
         ELSE <<FALSE, 0>>
         : y \in {ParseInt(SubSeq(d, 1, 4))},
           m \in {ParseInt(SubSeq(d, 6, 7))},
           dd \in {ParseInt(SubSeq(d, 9, 10))}})

\* one match attempt of between\s+(date)\s+(?:and|to)\s+(date) at i: the two
\* date texts, or <<>>
BetweenMatchAt(s, i) ==
    IF ~StartsAt(s, i, "between") THEN <<>>
    ELSE LET a  == SkipSpace(s, i + 7)
             b  == SkipSpace(s, a + 10)
             kw == IF StartsAt(s, b, "and") THEN 3 ELSE IF StartsAt(s, b, "to") THEN 2 ELSE 0
             c  == SkipSpace(s, b + kw)
         IN  IF /\ a > i + 7 /\ DateAt(s, a)
                /\ b > a + 10 /\ kw > 0 /\ c > b + kw /\ DateAt(s, c)
             THEN <<SubSeq(s, a, a + 9), SubSeq(s, c, c + 9)>>
             ELSE <<>>

\* a date mask's window: none, a pair of day numbers, or an exception
NoWindow == [t |-> "none"]
Window(start, end) == [t |-> "window", start |-> start, end |-> end]

\* _between_dates, lines 61-63: the window of the two dates of a match
window_between(m) ==
    The({IF ~a[1] \/ ~b[1] THEN Raises
         ELSE IF a[2] <= b[2] THEN Window(a[2], b[2]) ELSE Window(b[2], a[2])
         : a \in {to_datetime(m[1])}, b \in {to_datetime(m[2])}})

\* _between_dates
between_dates(text) ==
    The({IF i = 0 THEN NoWindow ELSE window_between(BetweenMatchAt(text, i))
         : i \in {MinOrZero({j \in 1..Len(text) : BetweenMatchAt(text, j) # <<>>})}})

\* the units of _last_n, in the order of the regex alternation
LAST_N_UNITS ==
    << <<"day", 1>>, <<"week", 7>>, <<"month", 30>>, <<"quarter", 90>>, <<"year", 365>> >>

\* one match attempt of last\s+(\d+)\s*(day|week|month|quarter|year)s? at i:
\* the number of days, or -1
LastNMatchAt(s, i) ==
    IF ~StartsAt(s, i, "last") THEN -1
    ELSE The({The({The({
            IF a > i + 4 /\ b > a /\ k > 0
            THEN ParseInt(SubSeq(s, a, b - 1)) * LAST_N_UNITS[k][2]
            ELSE -1
            : k \in {MinOrZero({j \in 1..Len(LAST_N_UNITS) :
                                    StartsAt(s, SkipSpace(s, b), LAST_N_UNITS[j][1])})}})
            : b \in {SkipDigits(s, a)}})
            : a \in {SkipSpace(s, i + 4)}})

\* _last_n: the Timedelta in days, -1 for None
last_n(text) ==
    The({IF i = 0 THEN -1 ELSE LastNMatchAt(text, i)
         : i \in {MinOrZero({j \in 1..Len(text) : LastNMatchAt(text, j) >= 0})}})

\* the first day of a quarter
QuarterStart(y, qr) == DayNumber(y, 3 * (qr - 1) + 1, 1)
\* start + QuarterEnd(0): the last day of the quarter
QuarterEnd(y, qr) == DayNumber(y, 3 * qr, DaysInMonth(y, 3 * qr))

Min(a, b) == IF a <= b THEN a ELSE b

\* _this_last_period
this_last_period(text) ==
    LET y  == Today[1]
        m  == Today[2]
        qr == (m - 1) \div 3 + 1
        \* today - MonthBegin(1): the first of this month, or of the month
        \* before when today is a first
        pm == IF Today[3] > 1 THEN <<y, m>>
              ELSE IF m = 1 THEN <<y - 1, 12>> ELSE <<y, m - 1>>
    IN  IF Contains(text, "this year") THEN Window(DayNumber(y, 1, 1), TodayNumber)
        ELSE IF Contains(text, "last year")
             THEN Window(DayNumber(y - 1, 1, 1), DayNumber(y - 1, 12, 31))
        ELSE IF Contains(text, "this quarter") THEN Window(QuarterStart(y, qr), TodayNumber)
        ELSE IF Contains(text, "last quarter")
             THEN IF qr - 1 = 0
                  THEN Window(QuarterStart(y - 1, 4), Min(QuarterEnd(y - 1, 4), TodayNumber))
                  ELSE Window(QuarterStart(y, qr - 1), Min(QuarterEnd(y, qr - 1), TodayNumber))
        ELSE IF Contains(text, "this month") THEN Window(DayNumber(y, m, 1), TodayNumber)
        ELSE IF Contains(text, "last month")
             THEN Window(DayNumber(pm[1], pm[2], 1),
                         Min(DayNumber(pm[1], pm[2], DaysInMonth(pm[1], pm[2])), TodayNumber))
        ELSE NoWindow

\* po.max() of a table, today for an empty one
MaxPoDate(df) ==
    IF df = <<>> THEN TodayNumber
    ELSE The({CHOOSE d \in ds : \A e \in ds : e <= d
              : ds \in {{Data[i].po_date : i \in RowsOf(df)}}})

\* _build_date_mask: the window of po_date that the mask keeps
build_date_mask(df, text) ==
    The({IF br # NoWindow THEN br
         ELSE The({IF td > 0 THEN The({Window(mx - td, mx) : mx \in {MaxPoDate(df)}})
                   ELSE this_last_period(text)
                   : td \in {last_n(text)}})
         : br \in {between_dates(text)}})

\* a metric as _metric_from_text returns it; NoMetric for None
Metric(col, agg) == [col |-> col, agg |-> agg]
NoMetric == [col |-> "", agg |-> ""]

\* _metric_from_text
metric_from_text(text) ==
    The({IF k0 # 0 THEN Metric(METRIC_MAP[k0][2], METRIC_MAP[k0][3])
         ELSE IF Contains(text, "cost") THEN Metric("total_landed_cost", "sum")
         ELSE IF Contains(text, "late") THEN Metric("delay_days_vs_planned_eta", "mean")
         ELSE IF Contains(text, "on time") \/ Contains(text, "otp")
              THEN Metric("on_time", "mean")
         ELSE NoMetric
         : k0 \in {MinOrZero({k \in 1..Len(METRIC_MAP) : Contains(text, METRIC_MAP[k][1])})}})

\* re.search(rf"\b{k}\b", text)
WordIn(text, k) ==
    \E i \in 1..Len(text) :
        StartsAt(text, i, k) /\ Boundary(text, i) /\ Boundary(text, i + Len(k))

\* _dimension_from_text ("" for None)
dimension_from_text(text) ==
    The({IF k = 0 THEN "" ELSE DIM_MAP[k][2]
         : k \in {MinOrZero({j \in 1..Len(DIM_MAP) : WordIn(text, DIM_MAP[j][1])})}})

\* _DIM_MAP.get(dim_key, _dimension_from_text(dim_key))
DimOf(dim_key) ==
    The({IF k # 0 THEN DIM_MAP[k][2] ELSE dimension_from_text(dim_key)
         : k \in {MinOrZero({j \in 1..Len(DIM_MAP) : DIM_MAP[j][1] = dim_key})}})

IsDimKeyCh(c) == IsLower(c) \/ c = "-"
IsMetKeyCh(c) == IsLower(c) \/ c = "-" \/ c = " "

SkipDimKey(s, i) ==
    The({IF j = 0 THEN Len(s) + 1 ELSE j
         : j \in {MinOrZero({k \in i..Len(s) : ~IsDimKeyCh(Ch(s, k))})}})
SkipMetKey(s, i) ==
    The({IF j = 0 THEN Len(s) + 1 ELSE j
         : j \in {MinOrZero({k \in i..Len(s) : ~IsMetKeyCh(Ch(s, k))})}})

\* one match attempt of top\s+(\d+)\s+([a-z\-]+)s?\s+by\s+([a-z\- ]+) at i:
\* the three groups, or <<>>. The last \s+ gives back one blank to group 3
\* when nothing else can start it.
PromptTopMatchAt(s, i) ==
    IF ~StartsAt(s, i, "top") THEN <<>>
    ELSE LET a == SkipSpace(s, i + 3)
             b == SkipDigits(s, a)
             c == SkipSpace(s, b)
             d == SkipDimKey(s, c)
             e == SkipSpace(s, d)
             f == SkipSpace(s, e + 2)
             g == SkipMetKey(s, f)
             head == /\ a > i + 3 /\ b > a /\ c > b /\ d > c
                     /\ e > d /\ StartsAt(s, e, "by") /\ f > e + 2
         IN  IF head /\ g > f
             THEN <<SubSeq(s, a, b - 1), SubSeq(s, c, d - 1), SubSeq(s, f, g - 1)>>
             ELSE IF head /\ f > e + 3 /\ Ch(s, f - 1) = " "
             THEN <<SubSeq(s, a, b - 1), SubSeq(s, c, d - 1), " ">>
             ELSE <<>>

\* re.search of the top-N pattern: the groups of the leftmost match, or <<>>
PromptTopSearch(text) ==
    The({IF i = 0 THEN <<>> ELSE PromptTopMatchAt(text, i)
         : i \in {MinOrZero({j \in 1..Len(text) : PromptTopMatchAt(text, j) # <<>>})}})

\* the rows of df that a window of po_date keeps
InWindow(df, w) ==
    The({Keep(df, {i \in RowsOf(df) : Data[i].po_date >= x.start /\ Data[i].po_date <= x.end})
         : x \in {w}})

\* the top-N step of apply_prompt_filters, lines 168-172
prompt_top_rows(df, n, dim, metric) ==
    The({Keep(df, {i \in RowsOf(df) : Data[i][dim] \in top})
         : top \in {The({TopKeys(keys,
                                 [k \in keys |->
                                    <<GroupSum(df, dim, k, metric.col),
                                      IF metric.agg = "sum" THEN 1
                                      ELSE GroupSize(df, dim, k)>>],
                                 n) : keys \in {GroupKeys(df, dim)}})}})

\* the top-N step of apply_prompt_filters, lines 163-167
prompt_top_match(df, text, mtop) ==
    The({IF dim = "" \/ metric = NoMetric THEN df
         ELSE prompt_top_rows(df, ParseInt(mtop[1]), dim, metric)
         : dim \in {DimOf(Strip(mtop[2]))},
           metric \in {The({IF m1 # NoMetric THEN m1 ELSE metric_from_text(text)
                            : m1 \in {metric_from_text(Strip(mtop[3]))}})}})

\* the top-N step of apply_prompt_filters (lines 161-172)
prompt_top_n(df, text) ==
    The({IF mtop = <<>> THEN x ELSE prompt_top_match(x, text, mtop)
         : mtop \in {PromptTopSearch(text)}, x \in {df}})

\* the filter steps of apply_prompt_filters (lines 141-154) for one choice
\* of status and mode
prompt_filters(df, text, s, m) ==
    The({Keep(df, {i \in RowsOf(df) : \E r \in {Data[i]} :
            /\ s = "" \/ Lower(r.status) = Lower(s)
            /\ m = "" \/ Lower(r.mode) = Lower(m)
            /\ o = "" \/ r.origin_country = o
            /\ sup = "" \/ r.supplier = sup
            /\ lane = "" \/ r.lane = lane})
         : o \in {origin_from_text(text)}, sup \in {supplier_from_text(text)},
           lane \in {lane_from_text(text)}})

\* apply_prompt_filters, lines 141-177, from the lowered text and the base
\* table on, for one choice of status and mode
prompt_outcome(base, text, s, m) ==
    The({The({IF dm = Raises THEN Raises
              ELSE Ok(prompt_top_n(IF dm = NoWindow THEN x ELSE InWindow(x, dm), text))
              : dm \in {build_date_mask(x, text)}})
         : x \in {The({prompt_filters(b, text, s, m) : b \in {base}})}})

\* apply_prompt_filters: the set of its outcomes over the iteration orders of
\* _STATUS and _MODE; each is a table, or the exception of _between_dates
apply_prompt_filters(df_all, df_filtered, prompt) ==
    UNION {{prompt_outcome(IF Contains(text, "all data") THEN df_all ELSE df_filtered,
                           text, s, m)
            : s \in status_from_text(text), m \in mode_from_text(text)}
           : text \in {Lower(Strip(prompt))}}

----------------------------------------------------------------------------
(* app.py: the enrichment step of main (lines 117-157).                     *)

\* lines 119-122: setdefault of the six keys, then filters None -> {}
EnsureKeys(plan) ==
    The({[k \in DOMAIN p \cup {PLAN_KEYS[j] : j \in 1..Len(PLAN_KEYS)} |->
            IF k = "filters" /\ IsNull(Get(p, k)) THEN Obj(EmptyDict) ELSE Get(p, k)]
         : p \in {plan}})

\* a faulty EnrichTimeRange: a time range that is set is cleared
ToggleTimeRange(plan, ql) ==
    The({IF IsNull(p["time_range"]) THEN Put(p, "time_range", LastNDays(30))
         ELSE Put(p, "time_range", Null)
         : p \in {plan}})

\* lines 127-133
EnrichTimeRange(plan, ql) ==
    The({IF IsNull(p["time_range"]) /\ ~IsNull(tr) THEN Put(p, "time_range", tr) ELSE p
         : p \in {plan}, tr \in {heuristic_time_range(ql)}})

\* lines 136-143
EnrichLimit(plan, query) ==
    The({IF IsNull(p["limit"]) /\ Truthy(top_info)
         THEN Put(p, "limit",
                  LimitOf(top_info.m["dimension"], top_info.m["n"], "total_landed_cost"))
         ELSE p
         : p \in {plan}, top_info \in {TopLimitOf[query]}})

\* a faulty EnrichOrderBy: the order is set whatever the plan holds
OverwriteOrderBy(plan, ql) == Put(plan, "order_by", OrderDesc("total_landed_cost"))

\* lines 146-152
EnrichOrderBy(plan, ql) ==
    The({IF ~IsNull(p["order_by"]) THEN p
         ELSE IF Contains(ql, "spend") THEN Put(p, "order_by", OrderDesc("total_landed_cost"))
         ELSE IF Contains(ql, "delay")
              THEN Put(p, "order_by", OrderDesc("delay_days_vs_planned_eta"))
         ELSE IF Contains(ql, "on-time") \/ Contains(ql, "on time")
              THEN Put(p, "order_by", OrderDesc("on_time_percent"))
         ELSE p
         : p \in {plan}})

\* line 155: `"status" not in (raw_plan["filters"] or {})`: "yes", "no", or
\* "raise" when the value has no membership test
StatusNotIn(filters) ==
    The({IF ~Truthy(f) THEN "yes"
         ELSE CASE f.t = "dict" -> IF "status" \in DOMAIN f.m THEN "no" ELSE "yes"
                [] f.t = "list" ->
                     IF \E k \in 1..Len(f.l) : f.l[k] = Str("status") THEN "no" ELSE "yes"
                [] f.t = "str"  -> IF Contains(f.s, "status") THEN "no" ELSE "yes"
                [] f.t = "num"  -> "raise"
         : f \in {filters}})

\* lines 155-156: the item assignment raises for a list, a string and a number
EnrichRisky(plan, ql) ==
    The({IF ~Contains(ql, "risky") THEN p
         ELSE The({IF notIn = "no" THEN p
                   ELSE IF notIn = "raise" \/ ~IsDict(p["filters"]) THEN Raises
                   ELSE Put(p, "filters", Obj(Put(p["filters"].m, "status", Str("Delayed"))))
                   : notIn \in {StatusNotIn(p["filters"])}})
         : p \in {plan}})

\* lines 117-157: the enriched raw_plan, or Raises
enrich(plan, query) ==
    The({EnrichRisky(
            EnrichOrderBy(EnrichLimit(EnrichTimeRange(EnsureKeys(plan), ql), query), ql),
            ql)
         : ql \in {Lower(query)}})

----------------------------------------------------------------------------
(* One run of main for one question (app.py lines 23-196), with the calls   *)
(* of llm_plan_via_hf_router cut at its two HTTP requests.                  *)

\* line 35: df = apply_filters(data, filters)
df == apply_filters(AllRows, sidebar)

\* the scan of _extract_json_object at rest
ScanIdle ==
    /\ xtext = "" /\ xi = 0 /\ xdepth = 0 /\ xin_str = FALSE /\ xesc = FALSE
    /\ xres = Null

\* no earlier execution of a plan
NoRun == [t |-> "none"]

\* the clock and the executions of a plan at rest: today, the table as it was
\* loaded
ClockIdle == now = TodayNumber /\ has_date = FALSE /\ first_run = NoRun

\* no CSV file
NoFile == [t |-> "none"]

\* data_source_picker at rest
LoadIdle == src_table = NoFile /\ main_data = Null /\ err = Null

\* the key is not in st.session_state
NotSet == [t |-> "unset"]
NoEvent == [t |-> "none"]

\* the sidebar's session state at rest
SideIdle ==
    /\ filters_model = NotSet /\ pending_clear = NotSet
    /\ event = NoEvent /\ rendered = NotSet

Init ==
    /\ q \in Questions
    /\ token \in BOOLEAN
    /\ sidebar \in Sidebars
    /\ pc = "start"
    /\ reqs = <<>>
    /\ chat = NoResp
    /\ compl = NoResp
    /\ parsed = FALSE
    /\ remote = EmptyDict
    /\ raw_plan = EmptyDict
    /\ df_for_viz = apply_filters(AllRows, sidebar)
    /\ shown = <<>>
    /\ raised = <<>>
    /\ ScanIdle /\ ClockIdle /\ LoadIdle /\ SideIdle

\* lines 165 and 170: df_for_viz, note = apply_prompt_filters(data, df, q)
RunFallback ==
    \E d \in {df} : \E r \in apply_prompt_filters(AllRows, d, q) :
        IF r = Raises
        THEN /\ pc' = "error"
             /\ raised' = Append(raised, "apply_prompt_filters")
             /\ UNCHANGED df_for_viz
        ELSE /\ pc' = "done"
             /\ df_for_viz' = r.df
             /\ UNCHANGED raised

\* a faulty NoQuestion: the tables and charts show the whole dataset
ShowAllData ==
    /\ pc = "start" /\ q = ""
    /\ pc' = "done"
    /\ df_for_viz' = AllRows
    /\ UNCHANGED << q, token, sidebar, reqs, chat, compl, parsed, remote, raw_plan,
                    shown, raised, scanVars, otherVars >>

\* line 111: no question, the tables and charts show df
NoQuestion ==
    /\ pc = "start" /\ q = ""
    /\ pc' = "done"
    /\ UNCHANGED << q, token, sidebar, reqs, chat, compl, parsed, remote, raw_plan,
                    df_for_viz, shown, raised, scanVars, otherVars >>

\* lines 167-170: no token
NoToken ==
    /\ pc = "start" /\ q # "" /\ ~token
    /\ shown' = Append(shown, "warning")
    /\ RunFallback
    /\ UNCHANGED << q, token, sidebar, reqs, chat, compl, parsed, remote, raw_plan,
                    scanVars, otherVars >>

\* lines 112-115 and llm_router.py lines 132-144: the chat request is sent
SendChat ==
    /\ pc = "start" /\ q # "" /\ token
    /\ pc' = "chat"
    /\ reqs' = Append(reqs, "chat")
    /\ UNCHANGED << q, token, sidebar, chat, compl, parsed, remote, raw_plan,
                    df_for_viz, shown, raised, scanVars, otherVars >>

\* llm_plan_via_hf_router goes on with r: it raises into the try block of
\* main, sends the completion request, or returns a plan to main
RouterGoesOn(r) ==
    CASE r.t = "raise" ->
            /\ pc' = "except"
            /\ raised' = Append(raised, "llm_plan_via_hf_router")
            /\ UNCHANGED << reqs, remote, parsed >>
      [] r.t = "completion" ->
            /\ pc' = "compl"
            /\ reqs' = Append(reqs, "completion")
            /\ UNCHANGED << raised, remote, parsed >>
      [] r.t = "return" ->
            /\ pc' = "returned"
            /\ remote' = r.plan
            /\ parsed' = r.parsed
            /\ UNCHANGED << raised, reqs >>

\* llm_router.py lines 144-198: the chat request ends with outcome o
ChatReply ==
    /\ pc = "chat"
    /\ \E o \in ChatOutcomes :
        /\ chat' = o
        /\ \E r \in {AfterChat(q, o)} : RouterGoesOn(r)
    /\ UNCHANGED << q, token, sidebar, compl, raw_plan, df_for_viz, shown, scanVars, otherVars >>

\* llm_router.py lines 162-171 and 182-195: the completion request ends
ComplReply ==
    /\ pc = "compl"
    /\ \E o \in ComplOutcomes :
        /\ compl' = o
        /\ \E r \in {IF chat.status = 400 THEN AfterCompletionNotChat(q, o)
                     ELSE AfterCompletionNoContent(q, o)} : RouterGoesOn(r)
    /\ UNCHANGED << q, token, sidebar, chat, raw_plan, df_for_viz, shown, scanVars, otherVars >>

\* app.py lines 117-157: the enrichment of the returned plan
Enrich ==
    /\ pc = "returned"
    /\ \E e \in {enrich(remote, q)} :
        IF e = Raises
        THEN /\ pc' = "except"
             /\ raised' = Append(raised, "enrichment")
             /\ UNCHANGED raw_plan
        ELSE /\ pc' = "enriched"
             /\ raw_plan' = e
             /\ UNCHANGED raised
    /\ UNCHANGED << q, token, sidebar, reqs, chat, compl, parsed, remote,
                    df_for_viz, shown, scanVars, otherVars >>

\* app.py lines 162-163: df_for_viz = apply_llm_plan(data, df, raw_plan)
Apply ==
    /\ pc = "enriched"
    /\ \E d \in {df} : \E a \in {apply_llm_plan(d, raw_plan)} :
        IF a = Raises
        THEN /\ pc' = "except"
             /\ raised' = Append(raised, "apply_llm_plan")
             /\ UNCHANGED df_for_viz
        ELSE /\ pc' = "done"
             /\ df_for_viz' = a.df
             /\ UNCHANGED raised
    /\ UNCHANGED << q, token, sidebar, reqs, chat, compl, parsed, remote, raw_plan,
                    shown, scanVars, otherVars >>

\* app.py lines 164-166: except Exception
Except ==
    /\ pc = "except"
    /\ RunFallback
    /\ shown' = IF pc' = "done" THEN Append(shown, "info") ELSE shown
    /\ UNCHANGED << q, token, sidebar, reqs, chat, compl, parsed, remote, raw_plan,
                    scanVars, otherVars >>

Next ==
    \/ NoQuestion
    \/ NoToken
    \/ SendChat
    \/ ChatReply
    \/ ComplReply
    \/ Enrich
    \/ Apply
    \/ Except

Spec == Init /\ [][Next]_vars


----------------------------------------------------------------------------
(* _extract_json_object step by step (llm_router.py lines 23-49), over      *)
(* reply texts that hold one JSON object wrapped in prose.                  *)

\* the most pieces a string literal of a generated reply is made of
MaxPieces == 3

\* the pieces of a JSON string literal: a letter, the two braces, an escaped
\* double quote, an escaped backslash
StringPieces == {"a", "{", "}", "\\\"", "\\\\"}

\* the bodies of string literals of at most n pieces
RECURSIVE LiteralBodies(_)
LiteralBodies(n) ==
    IF n = 0 THEN {""}
    ELSE LiteralBodies(n - 1)
            \cup {b \o p : b \in LiteralBodies(n - 1), p \in StringPieces}

\* JSON objects that hold a string literal of body b as a key, as a value, and
\* as a key of a nested object
ObjectsWith(b) ==
    {"{\"" \o b \o "\": 1}",
     "{\"k\": \"" \o b \o "\"}",
     "{\"k\": {\"" \o b \o "\": 1}}"}

\* the prose before and after the object in a reply
ProseBefore == {"", "Plan: "}
ProseAfter == {"", " ok"}

\* the reply texts the scan is run on, each with the object it wraps
WrappedObjects ==
    {<<pre \o obj \o post, obj>> :
        pre \in ProseBefore, post \in ProseAfter,
        obj \in UNION {ObjectsWith(b) : b \in LiteralBodies(MaxPieces)}}

\* the scan's state as the record ScanStep works on
ScanState ==
    [i |-> xi, start |-> FindBrace(xtext), depth |-> xdepth, in_str |-> xin_str,
     esc |-> xesc, done |-> FALSE, text |-> ""]

\* the main run at rest while the scan is studied
MainIdle ==
    /\ q = "" /\ token = FALSE
    /\ sidebar = FilterState(DefaultYearRange, "All", "All", "All", "All")
    /\ pc = "scan" /\ reqs = <<>> /\ chat = NoResp /\ compl = NoResp
    /\ parsed = FALSE /\ remote = EmptyDict /\ raw_plan = EmptyDict
    /\ df_for_viz = <<>> /\ shown = <<>> /\ raised = <<>>
    /\ ClockIdle /\ LoadIdle /\ SideIdle

\* lines 24-30: s = text, start = s.find("{"), the loop variables
InitExtract ==
    /\ MainIdle
    /\ \E w \in WrappedObjects :
        \E st \in {ScanStart(w[1])} :
            /\ xtext = w[1]
            /\ xi = st.i
            /\ xdepth = st.depth
            /\ xin_str = st.in_str
            /\ xesc = st.esc
            /\ xres = IF st.done THEN Str(st.text) ELSE Null

\* lines 31-49: one iteration of the loop, or the return after the loop
ScanNext ==
    /\ pc = "scan" /\ xres = Null
    /\ \E st \in {ScanStep(xtext, ScanState)} :
           /\ xi' = st.i
           /\ xdepth' = st.depth
           /\ xin_str' = st.in_str
           /\ xesc' = st.esc
           /\ xres' = IF st.done THEN Str(st.text) ELSE Null
    /\ UNCHANGED << mainVars, xtext, otherVars >>

NextExtract == ScanNext

SpecExtract == InitExtract /\ [][NextExtract]_vars


----------------------------------------------------------------------------
(* apply_llm_plan stage by stage (planner.py lines 105-124), over plans     *)
(* made of bounded sets of time ranges, filters and limits.                 *)

\* the largest n of the limits of the generated plans
MaxTopN == 2

\* the time_range values of the generated plans
PlanTimeRanges == {Null, LastNDays(30), LastNDays(365), Str("last week")}

\* the filters values: none, scalars, lists, two entries, a column the table
\* does not have, a number, an empty list, null as a value, and a list in
\* place of the mapping
PlanFilters ==
    {Null,
     Obj(EmptyDict),
     Obj([status |-> Str("Delayed")]),
     Obj([mode |-> Lst(<<Str("Air"), Str("Road")>>)]),
     Obj([status |-> Str("Delayed"), mode |-> Str("Air")]),
     Obj([supplier |-> Lst(<<Str("Delta Textiles"), Str("Acme")>>), mode |-> Str("Ocean")]),
     Obj([region |-> Str("EMEA")]),
     Obj([region |-> Lst(<<Str("EMEA")>>),
          origin_country |-> Lst(<<Str("CN"), Str("US")>>)]),
     Obj([total_landed_cost |-> Num(300)]),
     Obj([status |-> Lst(<<>>)]),
     Obj([lane |-> Null]),
     Lst(<<Str("status")>>)}

\* the dimensions and metrics named by the limits
LimitDimensions == {"supplier", "lane", "mode", "status", "origin_country"}
LimitMetrics == {Str("spend"), Str("delay_days"), Str("margin"), Null}

\* values of n that are no positive integer: null, a word, a negative number
LimitBadN == {Null, Str("many"), Num(-1)}

\* the limit values: none, a string in place of the mapping,
\* {dimension, n, metric}, {dimension, n}, a limit whose n is no positive
\* integer, and {dimension, metric}
PlanLimits ==
    {Null, Str("top")}
    \cup {LimitOf(Str(d), Num(n), m.s) :
            d \in LimitDimensions, n \in 0..MaxTopN, m \in LimitMetrics \ {Null}}
    \cup {Obj([dimension |-> Str(d), n |-> Num(n), metric |-> Null]) :
            d \in LimitDimensions, n \in 0..MaxTopN}
    \cup {Obj([dimension |-> Str(d), n |-> Num(n)]) :
            d \in LimitDimensions, n \in 0..MaxTopN}
    \cup {LimitOf(Str(d), n, "spend") : d \in LimitDimensions, n \in LimitBadN}
    \cup {Obj([dimension |-> Str(d), metric |-> Str("spend")]) : d \in LimitDimensions}

\* the plans handed to apply_llm_plan
PlannerPlans ==
    {[k \in {"time_range", "filters", "limit"} |->
        IF k = "time_range" THEN tr ELSE IF k = "filters" THEN f ELSE l] :
     tr \in PlanTimeRanges, f \in PlanFilters, l \in PlanLimits}

\* the run of main at rest while the executor is studied
PlanIdle ==
    /\ q = "" /\ token = FALSE /\ reqs = <<>> /\ chat = NoResp /\ compl = NoResp
    /\ parsed = FALSE /\ remote = EmptyDict /\ shown = <<>> /\ ScanIdle
    /\ LoadIdle /\ SideIdle

\* line 111: out = df, for the table of a sidebar selection
InitPlan ==
    /\ PlanIdle
    /\ sidebar \in Sidebars
    /\ raw_plan \in PlannerPlans
    /\ pc = "plan"
    /\ df_for_viz = apply_filters(AllRows, sidebar)
    /\ raised = <<>>
    /\ now = TodayNumber
    /\ has_date \in BOOLEAN
    /\ first_run = NoRun

\* lines 50-54: ts_col, "date" being the last of the candidates
TsColOf(with_date) == IF TsCol = "" /\ with_date THEN "date" ELSE TsCol

\* line 114: out = _apply_time_range(out, plan.get("time_range"))
TimeRangeStage ==
    /\ pc = "plan"
    /\ \E a \in {time_range_at(df_for_viz, Get(raw_plan, "time_range"),
                               TsColOf(has_date), now)} :
        IF a = Raises
        THEN /\ pc' = "plan_error"
             /\ raised' = Append(raised, "_apply_time_range")
             /\ UNCHANGED df_for_viz
        ELSE /\ pc' = "time_range_done"
             /\ df_for_viz' = a.df
             /\ UNCHANGED raised
    /\ UNCHANGED << q, token, sidebar, reqs, chat, compl, parsed, remote, raw_plan,
                    shown, scanVars, otherVars >>

\* line 117: out = _apply_filters(out, plan.get("filters"))
FiltersStage ==
    /\ pc = "time_range_done"
    /\ \E a \in {plan_apply_filters(df_for_viz, Get(raw_plan, "filters"))} :
        IF a = Raises
        THEN /\ pc' = "plan_error"
             /\ raised' = Append(raised, "_apply_filters")
             /\ UNCHANGED df_for_viz
        ELSE /\ pc' = "filters_done"
             /\ df_for_viz' = a.df
             /\ UNCHANGED raised
    /\ UNCHANGED << q, token, sidebar, reqs, chat, compl, parsed, remote, raw_plan,
                    shown, scanVars, otherVars >>

\* line 120: out = _apply_limit(out, plan.get("limit"))
LimitStage ==
    /\ pc = "filters_done"
    /\ \E a \in {plan_apply_limit(df_for_viz, Get(raw_plan, "limit"))} :
        IF a = Raises
        THEN /\ pc' = "plan_error"
             /\ raised' = Append(raised, "_apply_limit")
             /\ UNCHANGED df_for_viz
        ELSE /\ pc' = "limit_done"
             /\ df_for_viz' = a.df
             /\ UNCHANGED raised
    /\ UNCHANGED << q, token, sidebar, reqs, chat, compl, parsed, remote, raw_plan,
                    shown, scanVars, otherVars >>

\* the most days between two executions of a plan
MaxDaysLater == 15

\* a faulty ExecuteAgain: the later execution is given the whole dataset
ExecuteOnAllData ==
    /\ pc = "limit_done" /\ first_run = NoRun
    /\ first_run' = [t |-> "run", df |-> df_for_viz, day |-> now]
    /\ \E k \in {0, MaxDaysLater} : now' = now + k
    /\ df_for_viz' = AllRows
    /\ pc' = "plan"
    /\ UNCHANGED << q, token, sidebar, reqs, chat, compl, parsed, remote, raw_plan,
                    shown, raised, has_date, scanVars, loadVars, sideVars >>

\* a later run of main calls apply_llm_plan(data, df, raw_plan) again, on the
\* same day or MaxDaysLater days later (line 111: out = df)
ExecuteAgain ==
    /\ pc = "limit_done" /\ first_run = NoRun
    /\ first_run' = [t |-> "run", df |-> df_for_viz, day |-> now]
    /\ \E k \in {0, MaxDaysLater} : now' = now + k
    /\ df_for_viz' = df
    /\ pc' = "plan"
    /\ UNCHANGED << q, token, sidebar, reqs, chat, compl, parsed, remote, raw_plan,
                    shown, raised, has_date, scanVars, loadVars, sideVars >>

NextPlan ==
    \/ TimeRangeStage
    \/ FiltersStage
    \/ LimitStage
    \/ ExecuteAgain

SpecPlan == InitPlan /\ [][NextPlan]_vars

----------------------------------------------------------------------------
(* constants.py, data_io.py, features.py and ui.data_source_picker: the     *)
(* loading of the dataset.                                                   *)

EXPECTED_DATE_COLS ==
    << "po_date", "planned_ship_date", "actual_ship_date", "planned_eta", "actual_eta" >>
EXPECTED_BASE_COLS ==
    << "po_number", "supplier", "origin_country", "destination_country", "lane", "mode",
       "incoterm", "status", "quantity", "unit_price", "freight_cost", "duty_cost",
       "shipment_id" >>
EXPECTED_COLS == EXPECTED_BASE_COLS \o EXPECTED_DATE_COLS

\* the names of a list of columns
ColumnSet(names) == {names[k] : k \in 1..Len(names)}

\* ", ".join(names)
RECURSIVE JoinNames(_)
JoinNames(names) ==
    IF names = <<>> THEN ""
    ELSE IF Len(names) = 1 THEN names[1]
    ELSE names[1] \o ", " \o JoinNames(Tail(names))

\* a validation that names only the first missing column
validate_first_missing(cols, expected) ==
    The({IF missing = <<>> THEN Null
         ELSE Str("Missing required columns: " \o missing[1])
         : missing \in {SelectSeq(expected, LAMBDA c : c \notin cols)}})

\* data_io.validate_columns, on the columns of the frame
validate_columns(cols, expected) ==
    The({IF missing = <<>> THEN Null
         ELSE Str("Missing required columns: " \o JoinNames(missing))
         : missing \in {SelectSeq(expected, LAMBDA c : c \notin cols)}})

\* A date cell is <<>> for NaT (an empty or unparseable cell, errors="coerce")
\* and <<d>> for the day d; a day count is <<>> for NaN and <<n>> for n days.
NaT == <<>>
\* (a - b).dt.days
days_between(a, b) == IF a = NaT \/ b = NaT THEN NaT ELSE << a[1] - b[1] >>
\* a <= b on dates, False when either is NaT
DateLeq(a, b) == a # NaT /\ b # NaT /\ a[1] <= b[1]
\* a.dt.date < today, False for NaT
DateBefore(a, today) == a # NaT /\ a[1] < today
\* days > n, False for NaN
DaysOver(days, n) == days # NaT /\ days[1] > n

\* the columns derive_features adds when they are absent
DerivedCols ==
    {"po_value", "total_landed_cost", "lead_time_days", "transit_time_days",
     "delay_days_vs_planned_eta", "on_time", "risk_flag"}

\* a po_value that adds where the code multiplies
po_value_sum(r) == r.quantity + r.unit_price

\* line 8: quantity * unit_price
po_value_product(r) == r.quantity * r.unit_price

\* lines 7-8
po_value_of(r, cols) ==
    IF "po_value" \in cols THEN r.po_value ELSE po_value_product(r)

\* lines 9-10: the po_value read is the column as it stands after lines 7-8
total_landed_cost_of(r, cols) ==
    IF "total_landed_cost" \in cols THEN r.total_landed_cost
    ELSE po_value_of(r, cols) + r.freight_cost + r.duty_cost

\* lines 11-14
lead_time_days_of(r, cols) ==
    IF "lead_time_days" \in cols THEN r.lead_time_days
    ELSE days_between(r.actual_ship_date, r.po_date)

\* lines 15-18
transit_time_days_of(r, cols) ==
    IF "transit_time_days" \in cols THEN r.transit_time_days
    ELSE days_between(r.actual_eta, r.actual_ship_date)

\* lines 19-22
delay_days_of(r, cols) ==
    IF "delay_days_vs_planned_eta" \in cols THEN r.delay_days_vs_planned_eta
    ELSE days_between(r.actual_eta, r.planned_eta)

\* lines 23-28
on_time_of(r, cols) ==
    IF "on_time" \in cols THEN r.on_time
    ELSE IF r.status = "Delivered" /\ DateLeq(r.actual_eta, r.planned_eta) THEN 1 ELSE 0

\* a risk flag that takes a missing planned_eta for a past one
risk_where_nat_is_past(r, delay, today) ==
    IF \/ /\ r.status \in {"In-Transit", "Delayed"}
          /\ (r.planned_eta = NaT \/ DateBefore(r.planned_eta, today))
       \/ /\ r.status = "Delivered"
          /\ DaysOver(delay, 7)
    THEN 1 ELSE 0

\* lines 31-40: the np.where of risk_flag
risk_where(r, delay, today) ==
    IF \/ /\ r.status \in {"In-Transit", "Delayed"}
          /\ DateBefore(r.planned_eta, today)
       \/ /\ r.status = "Delivered"
          /\ DaysOver(delay, 7)
    THEN 1 ELSE 0

\* lines 29-40: today = pd.Timestamp.utcnow().date()
risk_flag_of(r, cols, today) ==
    IF "risk_flag" \in cols THEN r.risk_flag
    ELSE risk_where(r, delay_days_of(r, cols), today)

\* the row of the frame derive_features returns
derive_row(r, cols, today) ==
    [c \in (DOMAIN r) \cup DerivedCols |->
        CASE c = "po_value" -> po_value_of(r, cols)
          [] c = "total_landed_cost" -> total_landed_cost_of(r, cols)
          [] c = "lead_time_days" -> lead_time_days_of(r, cols)
          [] c = "transit_time_days" -> transit_time_days_of(r, cols)
          [] c = "delay_days_vs_planned_eta" -> delay_days_of(r, cols)
          [] c = "on_time" -> on_time_of(r, cols)
          [] c = "risk_flag" -> risk_flag_of(r, cols, today)
          [] OTHER -> r[c]]

\* features.derive_features
derive_features(t, today) ==
    [t |-> "table",
     cols |-> t.cols \cup DerivedCols,
     rows |-> [i \in 1..Len(t.rows) |-> derive_row(t.rows[i], t.cols, today)]]

(* The files the picker is given. Only the columns the features are derived *)
(* from carry values; a file may supply po_value, total_landed_cost or       *)
(* risk_flag itself, with values of its own.                                 *)
MaxRows == 1
MaxMissing == 2

Statuses == {"In-Transit", "Delayed", "Delivered", "Cancelled"}
PlannedEtas == {NaT, << TodayNumber - 10 >>, << TodayNumber - 1 >>, << TodayNumber >>}
ActualEtas == {NaT, << TodayNumber - 3 >>, << TodayNumber - 2 >>}

FileRow(s, p, a, qty) ==
    [status |-> s, quantity |-> qty, unit_price |-> 5, freight_cost |-> 4, duty_cost |-> 2,
     po_date |-> << TodayNumber - 40 >>, actual_ship_date |-> << TodayNumber - 30 >>,
     planned_eta |-> p, actual_eta |-> a,
     po_value |-> 99, total_landed_cost |-> 7, risk_flag |-> 1]

FileRows ==
    {FileRow(s, p, a, 3) : s \in Statuses, p \in PlannedEtas, a \in ActualEtas}
    \cup {FileRow("Delivered", << TodayNumber >>, << TodayNumber >>, 1)}

RowLists == UNION {[1..n -> FileRows] : n \in 0..MaxRows}

SuppliedCols == {"po_value", "total_landed_cost", "risk_flag"}

\* the frame pd.read_csv makes of a file with the columns cols
FileOf(cols, rows) ==
    [t |-> "csv", cols |-> cols,
     rows |-> [i \in 1..Len(rows) |-> [c \in (DOMAIN rows[i]) \cap cols |-> rows[i][c]]]]

CompleteFiles ==
    {FileOf(ColumnSet(EXPECTED_COLS) \cup extra, rows) :
        extra \in SUBSET SuppliedCols, rows \in RowLists}

IncompleteFiles ==
    {FileOf(ColumnSet(EXPECTED_COLS) \ gone,
            << FileRow("Delayed", << TodayNumber - 1 >>, NaT, 3) >>) :
        gone \in {g \in SUBSET ColumnSet(EXPECTED_COLS) :
                    Cardinality(g) \in 1..MaxMissing}}

InitLoad ==
    /\ q = "" /\ token = FALSE
    /\ sidebar = FilterState(DefaultYearRange, "All", "All", "All", "All")
    /\ reqs = <<>> /\ chat = NoResp /\ compl = NoResp
    /\ parsed = FALSE /\ remote = EmptyDict /\ raw_plan = EmptyDict
    /\ df_for_viz = <<>> /\ shown = <<>> /\ raised = <<>>
    /\ ScanIdle /\ ClockIdle /\ SideIdle
    /\ pc = "picker"
    /\ src_table \in {NoFile} \cup CompleteFiles \cup IncompleteFiles
    /\ main_data = Null
    /\ err = Null

\* ui.py lines 25-27: neither the sample nor an upload
NoSource ==
    /\ pc = "picker" /\ src_table = NoFile
    /\ shown' = Append(shown, "info")
    /\ pc' = "stopped"
    /\ UNCHANGED << q, token, sidebar, reqs, chat, compl, parsed, remote, raw_plan,
                    df_for_viz, raised, scanVars, clockVars, loadVars, sideVars >>

\* ui.py lines 21-24, data_io.py lines 16-23: pd.read_csv(..., parse_dates=
\* EXPECTED_DATE_COLS) raises ValueError when one of the date columns is not in
\* the file
LoadFile ==
    /\ pc = "picker" /\ src_table # NoFile
    /\ IF ColumnSet(EXPECTED_DATE_COLS) \subseteq src_table.cols
       THEN pc' = "loaded" /\ raised' = raised
       ELSE pc' = "load_error" /\ raised' = Append(raised, "read_csv")
    /\ UNCHANGED << q, token, sidebar, reqs, chat, compl, parsed, remote, raw_plan,
                    df_for_viz, shown, scanVars, clockVars, loadVars, sideVars >>

\* ui.py lines 29-32: err = validate_columns(df, expected_cols); st.error and
\* st.stop on an error
Validate ==
    /\ pc = "loaded"
    /\ \E e \in {validate_columns(src_table.cols, EXPECTED_COLS)} :
        /\ err' = e
        /\ IF e # Null
           THEN pc' = "stopped" /\ shown' = Append(shown, "error")
           ELSE pc' = "validated" /\ shown' = shown
    /\ UNCHANGED << q, token, sidebar, reqs, chat, compl, parsed, remote, raw_plan,
                    df_for_viz, raised, scanVars, clockVars, src_table, main_data,
                    sideVars >>

\* ui.py line 34: return derive_features(df)
Derive ==
    /\ pc = "validated"
    /\ main_data' = derive_features(src_table, now)
    /\ pc' = "data"
    /\ UNCHANGED << q, token, sidebar, reqs, chat, compl, parsed, remote, raw_plan,
                    df_for_viz, shown, raised, scanVars, clockVars, src_table, err,
                    sideVars >>

NextLoad ==
    \/ NoSource
    \/ LoadFile
    \/ Validate
    \/ Derive

SpecLoad == InitLoad /\ [][NextLoad]_vars

----------------------------------------------------------------------------
(* filters.py: the sidebar, one run of the script after another. A widget   *)
(* made without a key is the widget of the run before when it is made with  *)
(* the same value or index, and then returns what the user left in it; made *)
(* with another value or index it is a new widget and returns that value.   *)

Fields == {"po_date_range", "supplier", "lane", "mode", "status"}

\* lines 29-37
_defaults ==
    [po_date_range |-> DefaultYearRange, supplier |-> "All", lane |-> "All",
     mode |-> "All", status |-> "All"]

\* lines 88-91: "All" and the values of the column
OptionsOf(f) == {"All"} \cup {Data[i][f] : i \in 1..Len(Data)}

\* lines 94-98: the option a selectbox is made with
_idx(f, value) == IF value \in OptionsOf(f) THEN value ELSE "All"

\* lines 50-75, for the tuples a date_input made with a range returns
_coerce_range(val) ==
    IF Len(val) = 0 THEN DefaultYearRange
    ELSE IF Len(val) = 1 THEN << val[1], val[1] >>
    ELSE IF val[2] < val[1] THEN << val[2], val[1] >>
    ELSE << val[1], val[2] >>

\* the session state's flag
Flag(b) == [t |-> "bool", b |-> b]

\* what the user picks in a widget: a range, or a first date only, in the
\* date input, and an option in a selectbox
DatePicks == {"last year", "all dates", "one date"}
PickValue(f, v) ==
    IF f # "po_date_range" THEN v
    ELSE IF v = "last year" THEN DefaultYearRange
    ELSE IF v = "all dates" THEN << DataMinDate, DataMaxDate >>
    ELSE << DataMaxDate >>
PicksOf(f) ==
    IF f = "po_date_range" THEN DatePicks
    ELSE IF f = "supplier" THEN {"All", "Delta Textiles"}
    ELSE IF f = "mode" THEN {"All", "Ocean"}
    ELSE {"All"}

\* the events that start a run: a click on "Remove filters", a change in a
\* widget of the sidebar, anything else (a question, another widget)
UserEvents ==
    {[t |-> "click"], [t |-> "rerun"]}
    \cup {[t |-> "change", w |-> f, v |-> v] : f \in {"po_date_range"}, v \in PicksOf("po_date_range")}
    \cup {[t |-> "change", w |-> f, v |-> v] : f \in {"supplier"}, v \in PicksOf("supplier")}
    \cup {[t |-> "change", w |-> f, v |-> v] : f \in {"mode"}, v \in PicksOf("mode")}

\* the first run of a session
InitSidebar ==
    /\ q = "" /\ token = FALSE
    /\ sidebar = FilterState(DefaultYearRange, "All", "All", "All", "All")
    /\ reqs = <<>> /\ chat = NoResp /\ compl = NoResp
    /\ parsed = FALSE /\ remote = EmptyDict /\ raw_plan = EmptyDict
    /\ df_for_viz = <<>> /\ shown = <<>> /\ raised = <<>>
    /\ ScanIdle /\ ClockIdle /\ LoadIdle
    /\ pc = "run_start"
    /\ filters_model = NotSet /\ pending_clear = NotSet
    /\ event = [t |-> "load"]
    /\ rendered = NotSet

\* the user acts on the page of the last run, and the script runs again
UserEvent ==
    /\ pc = "idle"
    /\ \E e \in UserEvents :
        /\ e.t = "change" => PickValue(e.w, e.v) # rendered.value[e.w]
        /\ event' = e
    /\ shown' = <<>>
    /\ pc' = "run_start"
    /\ UNCHANGED << q, token, sidebar, reqs, chat, compl, parsed, remote, raw_plan,
                    df_for_viz, raised, scanVars, clockVars, loadVars,
                    filters_model, pending_clear, rendered >>

\* lines 39-43 and 82
EnsureModel ==
    /\ pc = "run_start"
    /\ filters_model' = IF filters_model = NotSet THEN _defaults ELSE filters_model
    /\ pending_clear' = IF pending_clear = NotSet THEN Flag(FALSE) ELSE pending_clear
    /\ pc' = "ensured"
    /\ UNCHANGED << q, token, sidebar, reqs, chat, compl, parsed, remote, raw_plan,
                    df_for_viz, shown, raised, scanVars, clockVars, loadVars,
                    event, rendered >>

\* a reset that leaves the trigger set
ConsumeKeepsFlag ==
    /\ pc = "ensured"
    /\ filters_model' = IF pending_clear = Flag(TRUE) THEN _defaults ELSE filters_model
    /\ pc' = "consumed"
    /\ UNCHANGED << q, token, sidebar, reqs, chat, compl, parsed, remote, raw_plan,
                    df_for_viz, shown, raised, scanVars, clockVars, loadVars,
                    pending_clear, event, rendered >>

\* lines 45-48 and 83
ConsumePendingClear ==
    /\ pc = "ensured"
    /\ IF pending_clear = Flag(TRUE)
       THEN /\ filters_model' = _defaults
            /\ pending_clear' = Flag(FALSE)
       ELSE UNCHANGED << filters_model, pending_clear >>
    /\ pc' = "consumed"
    /\ UNCHANGED << q, token, sidebar, reqs, chat, compl, parsed, remote, raw_plan,
                    df_for_viz, shown, raised, scanVars, clockVars, loadVars,
                    event, rendered >>

\* the value or option the widget of f is made with (lines 101-105)
MadeWith(model, f) ==
    IF f = "po_date_range" THEN model[f] ELSE _idx(f, model[f])

\* what the widget of f returns in this run
WidgetValue(model, f) ==
    IF rendered # NotSet /\ rendered.made[f] = MadeWith(model, f)
    THEN IF event.t = "change" /\ event.w = f
         THEN PickValue(f, event.v)
         ELSE rendered.value[f]
    ELSE MadeWith(model, f)

\* lines 85-105: model = st.session_state["filters_model"] and the widgets
RenderWidgets ==
    /\ pc = "consumed"
    /\ rendered' = [made |-> [f \in Fields |-> MadeWith(filters_model, f)],
                    value |-> [f \in Fields |-> WidgetValue(filters_model, f)]]
    /\ pc' = "widgets"
    /\ UNCHANGED << q, token, sidebar, reqs, chat, compl, parsed, remote, raw_plan,
                    df_for_viz, shown, raised, scanVars, clockVars, loadVars,
                    filters_model, pending_clear, event >>

\* lines 109-112: the button is True in the run its click starts
RemoveFiltersButton ==
    /\ pc = "widgets"
    /\ IF event.t = "click"
       THEN /\ pending_clear' = Flag(TRUE)
            /\ shown' = Append(shown, "toast")
       ELSE UNCHANGED << pending_clear, shown >>
    /\ pc' = "button"
    /\ UNCHANGED << q, token, sidebar, reqs, chat, compl, parsed, remote, raw_plan,
                    df_for_viz, raised, scanVars, clockVars, loadVars,
                    filters_model, event, rendered >>

\* lines 115-131: the model is written from the widgets and the FilterState
\* returned
PersistAndReturn ==
    /\ pc = "button"
    /\ \E v \in {rendered.value}, range \in {_coerce_range(rendered.value["po_date_range"])} :
        /\ filters_model' = [po_date_range |-> range, supplier |-> v["supplier"],
                             lane |-> v["lane"], mode |-> v["mode"],
                             status |-> v["status"]]
        /\ sidebar' = FilterState(range, v["supplier"], v["lane"], v["mode"], v["status"])
    /\ pc' = "idle"
    /\ UNCHANGED << q, token, reqs, chat, compl, parsed, remote, raw_plan,
                    df_for_viz, shown, raised, scanVars, clockVars, loadVars,
                    pending_clear, event, rendered >>

NextSidebar ==
    \/ UserEvent
    \/ EnsureModel
    \/ ConsumePendingClear
    \/ RenderWidgets
    \/ RemoveFiltersButton
    \/ PersistAndReturn

SpecSidebar == InitSidebar /\ [][NextSidebar]_vars

----------------------------------------------------------------------------

(* The claims about the remote path of main and the adapter.                *)

InSeq(x, seq) == \E k \in 1..Len(seq) : seq[k] = x

\* llm_plan_via_hf_router has returned a plan to main in this run
RouterReturned ==
    /\ pc \in {"returned", "enriched", "except", "done", "error"}
    /\ token /\ q # ""
    /\ ~InSeq("llm_plan_via_hf_router", raised)

\* the reply the adapter read last
LastReply == IF compl # NoResp THEN compl ELSE chat

\* C1 (as stated): llm_plan_via_hf_router never propagates a failure to its
\* caller: whatever the chat and the completion request end in, it returns a
\* plan and does not raise.
C1_RouterNeverRaises == ~InSeq("llm_plan_via_hf_router", raised)

\* C2 (as stated): for every non-empty question main ends with a result table;
\* no error reaches the caller of main.
C2_AlwaysAnswered == q # "" => pc # "error"

\* C3: when llm_plan_via_hf_router returns without a JSON object parsed out of
\* a reply (an error status of the reply read last, no content, content that
\* holds no object or parses to a list or a number), it returns exactly
\* build_heuristic_plan(query); a parsed return is the object of a reply.
C3_HeuristicWhenNothingParsed ==
    RouterReturned =>
        /\ ~parsed => remote = HeuristicPlanOf[q]
        /\ LastReply.status >= 400 => ~parsed
        /\ parsed => \E c \in ReplyTexts : IsDict(CoercedOf[c]) /\ remote = CoercedOf[c].m

\* C3 witness: a chat reply whose content parses to a JSON list was answered
\* with the heuristic plan of the question
C3_Witness ==
    /\ pc = "returned" /\ ~parsed /\ compl = NoResp
    /\ q = "top two lanes by delay"
    /\ chat = Resp(200, "", Choices(Obj([message |->
                Obj([role |-> Str("assistant"), content |-> Str(ContentJsonList)])])))
    /\ remote = HeuristicPlanOf[q]
    /\ Truthy(remote["limit"])

\* C4: in one call at most one chat and at most one completion request are
\* sent, the chat request first, and none after a completion reply.
C4_NoRetry ==
    /\ [](reqs \in {<<>>, <<"chat">>, <<"chat", "completion">>})
    /\ [][compl # NoResp => reqs' = reqs]_vars

\* C4 witness: both requests were sent and the completion reply was read
C4_Witness ==
    /\ reqs = <<"chat", "completion">> /\ compl # NoResp /\ pc = "returned"

\* the error bodies in the style of "not a chat model"
NotChatTexts == {ErrNotChat[1], ErrNotSupported[1], ErrRespFormat[1]}

\* a chat reply of a success status whose JSON body holds no usable content
NoUsableContent(o) ==
    /\ o.kind = "resp" /\ o.status < 400 /\ o.json # NotJson
    /\ extract_content_from_chat(o.json) # Raises
    /\ ~Truthy(extract_content_from_chat(o.json))

C6_SameTableOnBothHeuristicPaths ==
    (pc = "done" /\ token /\ q # "" /\ ~parsed /\ raised = <<>>)
        => Ok(df_for_viz) \in apply_prompt_filters(AllRows, df, q)

\* C7 (as stated): for a reply that wraps a JSON object in prose,
\* _extract_json_object returns that object; braces inside its string
\* literals, also after a backslash-escaped double quote, are not counted.
C7_ExtractsWrappedObject ==
    xres # Null => \A w \in WrappedObjects : w[1] = xtext => xres = Str(w[2])

PlanKeySet == {PLAN_KEYS[k] : k \in 1..Len(PLAN_KEYS)}

\* the remote plan set the key k
RemoteSet(k) == k \in DOMAIN remote /\ ~IsNull(remote[k])

\* C8 (as stated): the enrichment changes no key the remote plan set.
C8_EnrichmentKeepsRemoteKeys ==
    pc = "enriched" => \A k \in PlanKeySet : RemoteSet(k) => raw_plan[k] = remote[k]

\* the enrichment adds status = Delayed to the remote filters
RiskyAdded ==
    /\ Contains(Lower(q), "risky")
    /\ IsDict(remote["filters"])
    /\ "status" \notin DOMAIN remote["filters"].m

\* C8 (amended): the enrichment changes no key the remote plan set, but for a
\* question that holds "risky" it adds the entry status = Delayed to remote
\* filters without a status entry; every remote entry of the filters stays.
C8_EnrichmentKeepsRemoteKeysButRiskyStatus ==
    pc = "enriched" =>
        \A k \in PlanKeySet :
            RemoteSet(k) =>
                IF k = "filters" /\ RiskyAdded
                THEN raw_plan[k] = Obj(Put(remote[k].m, "status", Str("Delayed")))
                ELSE raw_plan[k] = remote[k]

\* C8 witness: a remote plan with every key set went through the enrichment
\* of a question that has a top-N phrase, a metric and a period
C8_Witness ==
    /\ pc = "enriched" /\ parsed /\ remote = PlanAllSet
    /\ q = "top 5 suppliers by spend last quarter"
    /\ raw_plan = PlanAllSet

\* C9 (as stated): every plan handed to apply_llm_plan has the six keys and a
\* mapping as its filters.
C9_PlanHandedToExecutorIsValid ==
    pc = "enriched" =>
        /\ PlanKeySet \subseteq DOMAIN raw_plan
        /\ IsDict(raw_plan["filters"])

\* C10 (as stated): the validation and enrichment step never raises, however
\* malformed the plan dictionary.
C10_EnrichmentNeverRaises == ~InSeq("enrichment", raised)


----------------------------------------------------------------------------
(* The claims about the enrichment, the plan executor and the heuristic     *)
(* planners.                                                                *)

\* C11: the key-defaulting and enrichment step is idempotent: applied for the
\* same question to the plan it produced, it yields that plan again.
C11_EnrichmentIdempotent ==
    pc = "enriched" => enrich(raw_plan, q) = raw_plan

\* C11 witness: an enrichment that filled the time range, the limit and the
\* order of a remote plan that had none of them
C11_Witness ==
    /\ pc = "enriched" /\ parsed
    /\ IsNull(Get(remote, "time_range")) /\ ~IsNull(raw_plan["time_range"])
    /\ IsNull(Get(remote, "limit")) /\ ~IsNull(raw_plan["limit"])
    /\ IsNull(Get(remote, "order_by")) /\ ~IsNull(raw_plan["order_by"])

\* the cell of a row as a JSON value
CellJson(i, col) ==
    IF col \in TextColumns THEN Str(Data[i][col]) ELSE Num(Data[i][col])

\* row i satisfies the filter entry col: v
Satisfies(i, col, v) ==
    IF v.t = "list" THEN \E x \in 1..Len(v.l) : v.l[x] = CellJson(i, col)
    ELSE v = CellJson(i, col)

\* the rows of table t that satisfy every entry of the filters whose column
\* the table has
Survivors(t, filters) ==
    IF ~Truthy(filters) THEN RowsOf(t)
    ELSE {i \in RowsOf(t) :
            \A k \in DOMAIN filters.m : k \in DataColumns => Satisfies(i, k, filters.m[k])}

\* the limit of the plan names one of the dimensions and a positive n
LimitCuts ==
    \E l \in {raw_plan["limit"]} :
        /\ IsDict(l) /\ "dimension" \in DOMAIN l.m /\ "n" \in DOMAIN l.m
        /\ l.m["dimension"].t = "str" /\ l.m["dimension"].s \in DIMENSIONS
        /\ l.m["n"].t = "num" /\ l.m["n"].n >= 1

LimitDim == raw_plan["limit"].m["dimension"].s
LimitN == raw_plan["limit"].m["n"].n

\* the aggregate each value of column dim has over table t: the sum of column
\* col, the number of rows when col is ""
Aggregates(t, dim, col) ==
    [k \in GroupKeys(t, dim) |->
        IF col = "" THEN GroupSize(t, dim, k) ELSE GroupSum(t, dim, k, col)]

\* table r holds the rows of table t whose group is among the n groups of
\* the highest aggregate g: no kept row has n groups above its own, and every
\* dropped row has n other groups at or above its own
HoldsTopGroups(r, t, dim, n, g) ==
    /\ RowsOf(r) \subseteq RowsOf(t)
    /\ \A i \in RowsOf(r) :
        Cardinality({k \in DOMAIN g : g[k] > g[Data[i][dim]]}) < n
    /\ \A i \in RowsOf(t) \ RowsOf(r) :
        Cardinality({k \in DOMAIN g : k # Data[i][dim] /\ g[k] >= g[Data[i][dim]]}) >= n

\* the column the limit stage sums for the metric of the plan's limit, "" when
\* it counts rows
RankColumn ==
    The({IF IsNull(m) THEN "" ELSE m.s
         : m \in {resolve_metric(Get(raw_plan["limit"].m, "metric"))}})

\* C12: the stages run in the order time range, filters, limit, and the limit
\* stage ranks the groups over the table the filter stage left: it keeps
\* exactly the rows of that table whose group is among its n highest groups.
C12_LimitRanksSurvivingRows ==
    [][/\ pc' = "time_range_done" => pc = "plan"
       /\ pc' = "filters_done" => pc = "time_range_done"
       /\ pc' = "limit_done" => pc = "filters_done"
       /\ (pc' = "limit_done" /\ LimitCuts) =>
            \E t \in {df_for_viz}, r \in {df_for_viz'}, dim \in {LimitDim} :
                \E g \in {Aggregates(t, dim, RankColumn)} :
                    HoldsTopGroups(r, t, dim, LimitN, g)]_vars

\* C12 witness: the filters dropped rows, the limit then dropped further
\* rows, and the highest group of the whole input is not in the result
C12_Witness ==
    /\ pc = "limit_done" /\ LimitCuts /\ IsDict(raw_plan["filters"])
    /\ RowsOf(df_for_viz) # {}
    /\ \E s \in {Survivors(df, raw_plan["filters"])} :
        /\ RowsOf(df_for_viz) \subseteq s /\ RowsOf(df_for_viz) # s
        /\ s # RowsOf(df)
    /\ \E g \in {Aggregates(df, LimitDim, RankColumn)} :
        \E k \in DOMAIN g :
            \A i \in RowsOf(df_for_viz) : g[k] > g[Data[i][LimitDim]]

\* C13: the filter stage keeps, in their order, exactly the rows that satisfy
\* every filter entry whose column the table has (membership for a list,
\* equality for a scalar); an entry naming an unknown column is ignored, and a
\* mapping of filters causes no error.
C13_FilterStageKeepsMatchingRows ==
    [][\E f \in {Get(raw_plan, "filters")} :
        (pc = "time_range_done" /\ (IsDict(f) \/ IsNull(f))) =>
            /\ pc' = "filters_done"
            /\ \E s \in {Survivors(df_for_viz, f)} :
                df_for_viz' = SelectSeq(df_for_viz, LAMBDA i : i \in s)]_vars

\* C13 witness: filters with an entry for a column the table does not have
\* and a list entry for a column it has kept some rows and dropped others
C13_Witness ==
    /\ pc = "filters_done" /\ IsDict(raw_plan["filters"])
    /\ \E k \in DOMAIN raw_plan["filters"].m : k \notin DataColumns
    /\ \E k \in DOMAIN raw_plan["filters"].m :
        k \in DataColumns /\ raw_plan["filters"].m[k].t = "list"
    /\ RowsOf(df_for_viz) # {}
    /\ RowsOf(df_for_viz) # RowsOf(df)
    /\ RowsOf(df_for_viz) = Survivors(df, raw_plan["filters"])

\* C14 (as stated): after the time range stage of a plan with time_range
\* "last N days", every row of the table has a date at or after today minus
\* N days.
C14_LastNDaysKeepsRecentRows ==
    \E tr \in {raw_plan["time_range"]} :
        (/\ pc \in {"time_range_done", "filters_done", "limit_done"}
         /\ IsDict(tr) /\ Get(tr.m, "type") = Str("last_n_days")) =>
            \A i \in RowsOf(df_for_viz) :
                Data[i]["po_date"] >= TodayNumber - tr.m["n"].n

\* the metric of the plan's limit is a name that resolves to a column
MetricNamed ==
    \E m \in {Get(raw_plan["limit"].m, "metric")} :
        m.t = "str" /\ m.s # "" /\ AliasToColumn(m.s) \in DataColumns

MetricUnresolved ==
    \E m \in {Get(raw_plan["limit"].m, "metric")} :
        \/ IsNull(m)
        \/ m.t = "str" /\ AliasToColumn(m.s) \notin DataColumns

\* C16 (as stated): when the metric of the limit is unresolved, the limit
\* stage does not fail and ranks the groups by their number of rows, never by
\* the sum of a column.
C16_UnresolvedMetricRanksByCount ==
    [][(pc = "filters_done" /\ LimitCuts /\ MetricUnresolved) =>
        /\ pc' = "limit_done"
        /\ \E t \in {df_for_viz}, r \in {df_for_viz'}, dim \in {LimitDim} :
            \E g \in {Aggregates(t, dim, "")} :
                HoldsTopGroups(r, t, dim, LimitN, g)]_vars

\* the questions that name the status Delayed, a mode and the origin CN, each
\* with its mode
StatusModeOriginQuestions ==
    {<<"show delayed air shipments from CN last 30 days", "Air">>,
     <<"show delayed road shipments from CN", "Road">>}

\* C17 (as stated): when no plan of the remote service is used, the table
\* shown for a question that names a status, a mode and an origin holds only
\* rows of that status, that mode and that origin_country.
C17_HeuristicPathAppliesAllThreeFilters ==
    \A sm \in StatusModeOriginQuestions :
        (pc = "done" /\ ~parsed /\ q = sm[1]) =>
            \A i \in RowsOf(df_for_viz) :
                /\ Data[i]["status"] = "Delayed"
                /\ Data[i]["mode"] = sm[2]
                /\ Data[i]["origin_country"] = "CN"

\* the questions of the form "top N <dimension> by <metric>", each with its
\* dimension, N and metric column
TopQuestions ==
    {<<"top two lanes by delay", "lane", 2, "delay_days_vs_planned_eta">>,
     <<"top 3 supplier by spend", "supplier", 3, "total_landed_cost">>}

\* C18 (as stated): for a question "top N <dimension> by <metric>" the plan of
\* build_heuristic_plan has group_by = dimension, order_by = {metric, desc},
\* limit = {dimension, N, metric}, and no filter the question does not
\* mention.
C18_TopQuestionPlan ==
    \A tq \in TopQuestions :
        (pc = "returned" /\ ~parsed /\ q = tq[1]) =>
            /\ remote["group_by"] = Str(tq[2])
            /\ remote["order_by"] = OrderDesc(tq[4])
            /\ remote["limit"] = LimitOf(Str(tq[2]), Num(tq[3]), tq[4])
            /\ remote["filters"] = Obj(EmptyDict)

\* the supplier values of the dataset
DatasetSuppliers == {Data[i]["supplier"] : i \in 1..Len(Data)}

\* C19 (as stated): a supplier that build_heuristic_plan puts into the filters
\* of its plan is one of the supplier values of the dataset.
C19_SupplierFilterFromDataset ==
    (pc = "returned" /\ ~parsed /\ IsDict(remote["filters"])
        /\ "supplier" \in DOMAIN remote["filters"].m) =>
            /\ remote["filters"].m["supplier"].t = "str"
            /\ remote["filters"].m["supplier"].s \in DatasetSuppliers

\* C20 (as stated): with no token configured, a non-empty question sends no
\* request, shows the notice and ends with a result table.
C20_NoTokenAnsweredByFallback ==
    (q # "" /\ ~token /\ pc # "start") =>
        /\ reqs = <<>>
        /\ InSeq("warning", shown)
        /\ pc = "done"

----------------------------------------------------------------------------
(* The claims about the empty question, the loader, the derived features,   *)
(* the executor's determinism and the sidebar's reset.                      *)

\* C21: for an empty question no plan is built or executed and no request is
\* sent: the table handed to the KPIs, tables and charts is the
\* sidebar-filtered view.
C21_EmptyQuestionShowsSidebarView ==
    q = "" =>
        /\ pc \in {"start", "done"}
        /\ reqs = <<>> /\ chat = NoResp /\ compl = NoResp
        /\ remote = EmptyDict /\ raw_plan = EmptyDict
        /\ raised = <<>> /\ shown = <<>>
        /\ df_for_viz = df

\* C21 witness: a run for the empty question ended with the view of a sidebar
\* that selects some of the rows
C21_Witness ==
    /\ q = "" /\ pc = "done"
    /\ df_for_viz = df /\ RowsOf(df) # RowsOf(AllRows) /\ df # <<>>

\* the n of the plan's limit is a positive integer
LimitHasPositiveN ==
    \E l \in {raw_plan["limit"]} :
        "n" \in DOMAIN l.m /\ l.m["n"].t = "num" /\ l.m["n"].n >= 1

\* C29 (as stated): a limit whose n is no positive integer (zero, negative,
\* non-numeric, null or missing) is no limit at all: the limit stage returns
\* its input rows unchanged.
C29_NoPositiveNNoLimit ==
    [][(pc = "filters_done" /\ IsDict(raw_plan["limit"]) /\ ~LimitHasPositiveN) =>
        /\ pc' = "limit_done"
        /\ df_for_viz' = df_for_viz]_vars

\* the relative time phrases the heuristic planner is to detect, each with
\* its number of days
TimePhrases ==
    {<<"last 14 days", 14>>, <<"last 30 days", 30>>, <<"last 90 days", 90>>,
     <<"last quarter", 90>>}

\* C27 (as stated): the plan of build_heuristic_plan has, for a question with
\* one of the relative time phrases, the time_range last_n_days of that
\* phrase, and a null time_range for a question with none of them.
C27_TimePhrasesTranslated ==
    (pc = "returned" /\ ~parsed) =>
        \E ql \in {Lower(q)} :
            /\ \A tp \in TimePhrases :
                Contains(ql, tp[1]) => remote["time_range"] = LastNDays(tp[2])
            /\ (\A tp \in TimePhrases : ~Contains(ql, tp[1])) =>
                    IsNull(remote["time_range"])

\* C28 (as stated): the filters the fallback parser takes from a question are
\* determined by the question and the dataset: one status, one mode, and the
\* table shown is the only table the question can yield.
C28_FallbackFiltersDetermined ==
    (pc = "done" /\ q # "" /\ ~token) =>
        \E text \in {Lower(Strip(q))} :
            /\ Cardinality(status_from_text(text)) = 1
            /\ Cardinality(mode_from_text(text)) = 1
            /\ \A r \in apply_prompt_filters(AllRows, df, q) : r = Ok(df_for_viz)

\* the place of the first row of table t whose column dim holds key
FirstRowOf(t, dim, key) ==
    CHOOSE j \in 1..Len(t) :
        /\ Data[t[j]][dim] = key
        /\ \A x \in 1..(j - 1) : Data[t[x]][dim] # key

\* C26 (as stated): the limit stage keeps the n groups of the highest
\* aggregate, and of groups with equal aggregates those whose first row comes
\* earlier in the table it is given.
C26_TiesKeepFirstAppearance ==
    [][(pc = "filters_done" /\ LimitCuts) =>
        /\ pc' = "limit_done"
        /\ \E t \in {df_for_viz}, dim \in {LimitDim} :
            \E g \in {Aggregates(t, dim, RankColumn)} :
                \E first \in {[k \in DOMAIN g |-> FirstRowOf(t, dim, k)]} :
                    RowsOf(df_for_viz') =
                        {i \in RowsOf(t) :
                            Cardinality({k \in DOMAIN g :
                                \/ g[k] > g[Data[i][dim]]
                                \/ g[k] = g[Data[i][dim]] /\ first[k] < first[Data[i][dim]]})
                                < LimitN}]_vars

MissingCols(cols) == ColumnSet(EXPECTED_COLS) \ cols
\* the message e lists the column c
NamedIn(e, c) == Contains(e.s \o ",", " " \o c \o ",")

\* C22: a file that lacks a required column is rejected: validate_columns
\* returns no error exactly when no required column is missing, its message
\* otherwise names the missing required columns and no other column, and for
\* such a file no derived feature is computed and no dataset is returned.
C22_MissingColumnsRejected ==
    src_table # NoFile =>
        \E missing \in {MissingCols(src_table.cols)},
           e \in {validate_columns(src_table.cols, EXPECTED_COLS)} :
            /\ (e = Null) <=> (missing = {})
            /\ e # Null =>
                /\ StartsAt(e.s, 1, "Missing required columns: ")
                /\ \A c \in ColumnSet(EXPECTED_COLS) \cup SuppliedCols :
                    NamedIn(e, c) <=> c \in missing
            /\ missing # {} =>
                /\ main_data = Null
                /\ pc \notin {"validated", "data"}
            /\ pc \in {"validated", "stopped", "data"} => err = e
            /\ pc = "data" => missing = {} /\ main_data # Null

C22_Witness ==
    /\ pc = "stopped" /\ src_table # NoFile
    /\ err # Null /\ shown = << "error" >>
    /\ Cardinality(MissingCols(src_table.cols)) = 2
    /\ main_data = Null

\* C23 as stated: after derive_features every row has po_value = quantity *
\* unit_price and total_landed_cost = po_value + freight_cost + duty_cost, also
\* when the file supplies po_value or total_landed_cost.
C23_CostRelationsHold ==
    pc = "data" =>
        \A i \in 1..Len(main_data.rows) :
            \E r \in {main_data.rows[i]} :
                /\ r.po_value = r.quantity * r.unit_price
                /\ r.total_landed_cost = r.po_value + r.freight_cost + r.duty_cost

\* C23, amended: a column the file does not supply satisfies its relation
\* (total_landed_cost with the po_value of the returned table), and a column
\* the file supplies is returned as supplied.
C23_CostRelationsHoldForDerivedColumns ==
    pc = "data" =>
        /\ Len(main_data.rows) = Len(src_table.rows)
        /\ \A i \in 1..Len(main_data.rows) :
            \E r \in {main_data.rows[i]}, s \in {src_table.rows[i]} :
                /\ IF "po_value" \in src_table.cols
                   THEN r.po_value = s.po_value
                   ELSE r.po_value = r.quantity * r.unit_price
                /\ IF "total_landed_cost" \in src_table.cols
                   THEN r.total_landed_cost = s.total_landed_cost
                   ELSE r.total_landed_cost = r.po_value + r.freight_cost + r.duty_cost
                /\ r.quantity = s.quantity /\ r.unit_price = s.unit_price
                /\ r.freight_cost = s.freight_cost /\ r.duty_cost = s.duty_cost

C23_Witness ==
    /\ pc = "data"
    /\ "po_value" \in src_table.cols /\ "total_landed_cost" \notin src_table.cols
    /\ Len(main_data.rows) = 1
    /\ main_data.rows[1].quantity * main_data.rows[1].unit_price = 15
    /\ main_data.rows[1].po_value = 99
    /\ main_data.rows[1].total_landed_cost = 105

LastPersisted ==
    [po_date_range |-> _coerce_range(rendered.value["po_date_range"]),
     supplier |-> rendered.value["supplier"], lane |-> rendered.value["lane"],
     mode |-> rendered.value["mode"], status |-> rendered.value["status"]]

\* C30: "Remove filters" is a one-shot trigger. The run a click starts sets
\* the pending-clear flag, and no other run sets it; the flag stays set until
\* the next run, which resets the model to the defaults (last one year, All
\* for supplier, lane, mode and status) and clears the flag before its widgets
\* are made from the model; a run that finds the flag clear leaves the model
\* as the run before wrote it from the user's widgets.
C30_RemoveFiltersIsOneShot ==
    [][/\ (pc = "widgets" /\ pc' = "button") =>
            /\ pending_clear = Flag(FALSE)
            /\ pending_clear' = Flag(event.t = "click")
            /\ filters_model' = filters_model
       /\ pc \in {"button", "idle"} =>
            /\ pending_clear' = pending_clear
            /\ pc = "idle" => filters_model' = filters_model
       /\ (pc = "run_start" /\ rendered # NotSet) =>
            /\ pending_clear' = pending_clear
            /\ filters_model' = filters_model
            /\ filters_model = LastPersisted
       /\ (pc = "ensured" /\ pending_clear = Flag(TRUE)) =>
            /\ pc' = "consumed"
            /\ filters_model' = _defaults
            /\ filters_model'.po_date_range = << DataMaxDate - 365, DataMaxDate >>
            /\ \A f \in Fields \ {"po_date_range"} : filters_model'[f] = "All"
            /\ pending_clear' = Flag(FALSE)
       /\ (pc = "ensured" /\ pending_clear # Flag(TRUE)) =>
            /\ pc' = "consumed"
            /\ filters_model' = filters_model
            /\ pending_clear' = Flag(FALSE)
            /\ rendered # NotSet => filters_model' = LastPersisted
       /\ pc' = "widgets" =>
            /\ pc = "consumed"
            /\ pending_clear = Flag(FALSE)
            /\ filters_model' = filters_model /\ pending_clear' = pending_clear
            /\ \A f \in Fields : rendered'.made[f] = filters_model[f]
       /\ pc' = "consumed" => pc = "ensured"
       /\ pc' = "ensured" => pc = "run_start"]_vars

C30_Witness ==
    /\ pc = "consumed"
    /\ rendered # NotSet
    /\ rendered.value["mode"] = "Ocean" /\ rendered.value["supplier"] = "Delta Textiles"
    /\ filters_model = _defaults
    /\ pending_clear = Flag(FALSE)
    /\ event.t = "change"

====
